---- MODULE Spec2Model ----
(***************************************************************************)
(* InsightX AI: the rule-based query engine (Backend/Insightxmodel.py:     *)
(* NLPEngine, ResponseGenerator, InsightXModel) and the process-wide       *)
(* dataset state of the HTTP service (Backend/Main.py).                    *)
(*                                                                         *)
(* Query texts are real strings: matching is done on their characters      *)
(* (SubSeq / Len on strings), so substring and regular-expression matches  *)
(* are computed, not assumed.                                              *)
(*                                                                         *)
(* Numbers of the knowledge base are kept as integers: percentages with 3  *)
(* decimals (fraud_rate_pct) are in thousandths of a percent, percentages  *)
(* with 2 decimals (fail_rate_pct) and rupee amounts with 2 decimals (avg) *)
(* are in hundredths.                                                      *)
(***************************************************************************)
EXTENDS Integers, Sequences, FiniteSets, TLC

VARIABLES
    kb,               \* InsightXModel.kb / ResponseGenerator.kb
    history,          \* InsightXModel._history
    question,         \* the argument of the latest query() call
    calls,            \* locals of every query() call so far, at its end
    gen_in,           \* arguments of a direct ResponseGenerator.generate call
    gen_out,          \* what that generate call dispatched to
    df,               \* Main._df            (generation of the upload, 0 = None)
    df_filename,      \* Main._df_filename   (generation, 0 = "")
    system_prompt,    \* Main._system_prompt (generation, 0 = "")
    dashboard_cache,  \* Main._dashboard_cache (generation, 0 = None)
    upload,           \* the upload_csv request under way
    prev,             \* the four globals when that upload_csv request started
    seen,             \* what the last finished read request observed
    rank_in,          \* arguments of a direct ResponseGenerator._rank_by call
    rank_out,         \* what that _rank_by call returned
    records,          \* the rows of the CSV file InsightXModel(csv_path) reads
    train_error,      \* the exception _train_from_csv raised ("" when none)
    fmt_in,           \* argument of a direct ResponseGenerator._fmt_inr call
    fmt_out,          \* the text that _fmt_inr call returned
    sessions,         \* Main.sessions: the list object each session id is bound to
    msg_lists,        \* the message list objects of Main.py, by identity
    chats             \* the chat requests under way

vars == <<kb, history, question, calls, gen_in, gen_out,
          df, df_filename, system_prompt, dashboard_cache, upload, prev, seen,
          rank_in, rank_out, records, train_error,
                       fmt_in, fmt_out, sessions, msg_lists, chats>>

-----------------------------------------------------------------------------
(* Strings                                                                 *)

Upper == "ABCDEFGHIJKLMNOPQRSTUVWXYZ"
Lower == "abcdefghijklmnopqrstuvwxyz"
Digits == "0123456789"

\* s[i] of Python, "" outside the string
At(s, i) == IF i >= 1 /\ i <= Len(s) THEN SubSeq(s, i, i) ELSE ""

IndexIn(alphabet, c) ==
    IF \E i \in 1..Len(alphabet) : At(alphabet, i) = c
    THEN CHOOSE i \in 1..Len(alphabet) : At(alphabet, i) = c
    ELSE 0

\* the lower-case letter of each upper-case letter
LowerMap == [c \in {At(Upper, i) : i \in 1..Len(Upper)} |-> At(Lower, IndexIn(Upper, c))]

\* str.lower() on one character
LowerChar(c) == IF c \in DOMAIN LowerMap THEN LowerMap[c] ELSE c

RECURSIVE LowerFrom(_, _)
LowerFrom(s, i) ==
    IF i > Len(s) THEN "" ELSE LowerChar(At(s, i)) \o LowerFrom(s, i + 1)

\* str.lower()
ToLower(s) == LowerFrom(s, 1)

\* p in s  (also re.search of a literal pattern)
Contains(s, p) ==
    \E i \in 1..(Len(s) - Len(p) + 1) : SubSeq(s, i, i + Len(p) - 1) = p

\* re.search(p1|p2|..., s) for a sequence of literal alternatives
SearchAny(s, alts) == \E k \in 1..Len(alts) : Contains(s, alts[k])

DigitChars == {At(Digits, i) : i \in 1..Len(Digits)}
WordChars == DigitChars \cup {At(Lower, i) : i \in 1..Len(Lower)}
             \cup {At(Upper, i) : i \in 1..Len(Upper)} \cup {"_"}

\* \d of re
IsDigit(c) == c \in DigitChars
\* \w of re on the characters used here
IsWordChar(c) == c \in WordChars
\* \s of re
IsSpace(c) == c = " "

\* int(h) for a string of decimal digits
RECURSIVE IntOf(_)
IntOf(h) ==
    IF Len(h) = 0 THEN 0
    ELSE 10 * IntOf(SubSeq(h, 1, Len(h) - 1)) + (IndexIn(Digits, At(h, Len(h))) - 1)

\* str(n) for n >= 0
RECURSIVE StrOf(_)
StrOf(n) ==
    IF n < 10 THEN At(Digits, n + 1)
    ELSE StrOf(n \div 10) \o At(Digits, (n % 10) + 1)

-----------------------------------------------------------------------------
(* NLPEngine                                                               *)

\* INTENT_PATTERNS, in dict order. Each pattern is the sequence of the
\* literal alternatives of its regular expression: r"top\s*\d*" matches
\* exactly where "top" does, r"transactions?" where "transaction" does and
\* r"vs\.?" where "vs" does.
INTENT_PATTERNS == <<
    [intent |-> "FRAUD",    patterns |-> << <<"fraud">>, <<"scam">>, <<"cheat">>, <<"fake">>,
                                            <<"suspicious">>, <<"risk">> >>],
    [intent |-> "FAILURE",  patterns |-> << <<"fail">>, <<"unsuccessful">>, <<"declined">>,
                                            <<"rejected">>, <<"error">> >>],
    [intent |-> "AMOUNT",   patterns |-> << <<"amount">>, <<"value">>, <<"worth">>, <<"spend">>,
                                            <<"avg", "average">>, <<"median">>,
                                            <<"max", "maximum", "highest", "largest">>,
                                            <<"min", "minimum", "smallest", "lowest">> >>],
    [intent |-> "VOLUME",   patterns |-> << <<"volume">>, <<"total">>, <<"sum">>, <<"crore">>,
                                            <<"lakh">> >>],
    [intent |-> "COUNT",    patterns |-> << <<"count">>, <<"number of">>, <<"how many">>,
                                            <<"transaction">> >>],
    [intent |-> "RANK",     patterns |-> << <<"top">>, <<"rank">>, <<"best">>, <<"worst">>,
                                            <<"most">>, <<"least">>, <<"highest">>,
                                            <<"lowest">> >>],
    [intent |-> "COMPARE",  patterns |-> << <<"compare", "comparison", "vs", "versus",
                                              "difference", "between">> >>],
    [intent |-> "TREND",    patterns |-> << <<"trend">>, <<"over time">>, <<"month">>,
                                            <<"daily", "day", "week">>,
                                            <<"hour", "peak", "time", "when">> >>],
    [intent |-> "OVERVIEW", patterns |-> << <<"overview", "summary", "total", "overall", "all",
                                              "entire", "complete", "dataset", "general">> >>],
    [intent |-> "ANOMALY",  patterns |-> << <<"anomal">>, <<"spike">>, <<"outlier">>,
                                            <<"unusual">>, <<"strange">> >>]
>>

CATEGORIES == <<"Education", "Entertainment", "Food", "Fuel", "Grocery", "Healthcare",
                "Other", "Shopping", "Transport", "Utilities">>
STATES == <<"Andhra Pradesh", "Delhi", "Gujarat", "Karnataka", "Maharashtra", "Rajasthan",
            "Tamil Nadu", "Telangana", "Uttar Pradesh", "West Bengal">>
BANKS == <<"Axis", "HDFC", "ICICI", "IndusInd", "Kotak", "PNB", "SBI", "Yes Bank">>
DEVICES == <<"Android", "iOS", "Web">>
NETWORKS == <<"3G", "4G", "5G", "WiFi">>
TX_TYPES == <<"P2P", "P2M", "Bill Payment", "Recharge">>
AGE_GROUPS == <<"18-25", "26-35", "36-45", "46-55", "56+">>
MONTHS == <<"January", "February", "March", "April", "May", "June", "July", "August",
            "September", "October", "November", "December">>
DAYS == <<"Monday", "Tuesday", "Wednesday", "Thursday", "Friday", "Saturday", "Sunday">>

\* v.lower() of every vocabulary value v, computed once
VocabLower ==
    [v \in {CATEGORIES[k] : k \in 1..Len(CATEGORIES)} \cup {STATES[k] : k \in 1..Len(STATES)}
         \cup {BANKS[k] : k \in 1..Len(BANKS)} \cup {DEVICES[k] : k \in 1..Len(DEVICES)}
         \cup {NETWORKS[k] : k \in 1..Len(NETWORKS)} \cup {TX_TYPES[k] : k \in 1..Len(TX_TYPES)}
         \cup {MONTHS[k] : k \in 1..Len(MONTHS)} \cup {DAYS[k] : k \in 1..Len(DAYS)}
     |-> ToLower(v)]

\* any(re.search(p, q) for p in patterns)
PatternsMatch(patterns, q) ==
    \E k \in 1..Len(patterns) : SearchAny(q, patterns[k])

\* the loop of classify_intent over INTENT_PATTERNS.items()
RECURSIVE MatchedFrom(_, _)
MatchedFrom(q, k) ==
    IF k > Len(INTENT_PATTERNS) THEN <<>>
    ELSE (IF PatternsMatch(INTENT_PATTERNS[k].patterns, q)
          THEN <<INTENT_PATTERNS[k].intent>> ELSE <<>>) \o MatchedFrom(q, k + 1)

\* classify_intent without its fallback to OVERVIEW
classify_intent_NoFallback(query) == MatchedFrom(ToLower(query), 1)

\* classify_intent keeping only the best (first) match
classify_intent_BestOnly(query) ==
    LET matched == MatchedFrom(ToLower(query), 1)
    IN  IF matched # <<>> THEN <<matched[1]>> ELSE <<"OVERVIEW">>

classify_intent(query) ==
    LET q == ToLower(query)
        matched == MatchedFrom(q, 1)
    IN  IF matched # <<>> THEN matched ELSE <<"OVERVIEW">>

\* for v in vocab: if v.lower() in q_lower: append(v)
RECURSIVE FoundFrom(_, _, _)
FoundFrom(vocab, q_lower, k) ==
    IF k > Len(vocab) THEN <<>>
    ELSE (IF Contains(q_lower, VocabLower[vocab[k]]) THEN <<vocab[k]>> ELSE <<>>)
         \o FoundFrom(vocab, q_lower, k + 1)

\* for a in AGE_GROUPS: if a in q_orig: append(a)
RECURSIVE FoundExactFrom(_, _, _)
FoundExactFrom(vocab, q_orig, k) ==
    IF k > Len(vocab) THEN <<>>
    ELSE (IF Contains(q_orig, vocab[k]) THEN <<vocab[k]>> ELSE <<>>)
         \o FoundExactFrom(vocab, q_orig, k + 1)

\* the age list: the explicit brackets, then the two synonym appends
ExtractAges(q_orig, q_lower) ==
    FoundExactFrom(AGE_GROUPS, q_orig, 1)
    \o (IF SearchAny(q_lower, <<"young", "youth", "teen">>) THEN <<"18-25">> ELSE <<>>)
    \o (IF SearchAny(q_lower, <<"senior", "elder", "old">>) THEN <<"56+">> ELSE <<>>)

\* the run \d{1,2} starting at i: its length (0 when s[i] is no digit)
DigitRun(s, i) ==
    IF ~IsDigit(At(s, i)) THEN 0 ELSE IF IsDigit(At(s, i + 1)) THEN 2 ELSE 1

\* the end of \s* started at i (the first position that is not a space)
RECURSIVE SkipSpaces(_, _)
SkipSpaces(s, i) == IF IsSpace(At(s, i)) THEN SkipSpaces(s, i + 1) ELSE i

\* \b before position i, where s[i] is a word character
BoundaryBefore(s, i) == ~IsWordChar(At(s, i - 1))

\* r"\b(\d{1,2})\s*(?:pm|am|:00)" tried at position i: the group and the end
\* of the match (end = 0: no match). Taking fewer digits or fewer spaces
\* than the greedy choice never lets the rest match, as the next character
\* would then be a digit or a space.
HourAlt1(s, i) ==
    LET n == DigitRun(s, i)
        j == SkipSpaces(s, i + n)
    IN  IF n = 0 \/ ~BoundaryBefore(s, i) THEN [h |-> "", end |-> 0]
        ELSE IF j + 1 <= Len(s) /\ SubSeq(s, j, j + 1) \in {"pm", "am"}
             THEN [h |-> SubSeq(s, i, i + n - 1), end |-> j + 2]
        ELSE IF j + 2 <= Len(s) /\ SubSeq(s, j, j + 2) = ":00"
             THEN [h |-> SubSeq(s, i, i + n - 1), end |-> j + 3]
        ELSE [h |-> "", end |-> 0]

\* r"\bhour\s+(\d{1,2})\b" tried at position i
HourAlt2(s, i) ==
    LET j == SkipSpaces(s, i + 4)
        n == DigitRun(s, j)
    IN  IF /\ i + 3 <= Len(s)
           /\ SubSeq(s, i, i + 3) = "hour"
           /\ BoundaryBefore(s, i)
           /\ j > i + 4
           /\ n > 0
           /\ ~IsWordChar(At(s, j + n))
        THEN [h |-> SubSeq(s, j, j + n - 1), end |-> j + n]
        ELSE [h |-> "", end |-> 0]

\* re.findall of the hour pattern from position i on, each match turned
\* into str(int(h)) by the loop that follows it
RECURSIVE FindHours(_, _)
FindHours(s, i) ==
    IF i > Len(s) THEN <<>>
    ELSE LET m1 == HourAlt1(s, i)
             m2 == HourAlt2(s, i)
             m  == IF m1.end > 0 THEN m1 ELSE m2
         IN  IF m.end = 0 THEN FindHours(s, i + 1)
             ELSE <<StrOf(IntOf(m.h))>> \o FindHours(s, m.end)

\* the metric chain with the fraud cue tested first
ExtractMetric_FraudFirst(q_lower) ==
    IF SearchAny(q_lower, <<"fraud">>) THEN "fraud_rate_pct"
    ELSE IF SearchAny(q_lower, <<"avg", "average", "mean">>) THEN "avg"
    ELSE IF SearchAny(q_lower, <<"median">>) THEN "median"
    ELSE IF SearchAny(q_lower, <<"max", "maximum", "highest", "largest">>) THEN "max"
    ELSE IF SearchAny(q_lower, <<"min", "minimum", "lowest", "smallest">>) THEN "min"
    ELSE IF SearchAny(q_lower, <<"total", "sum", "volume">>) THEN "total_volume"
    ELSE IF SearchAny(q_lower, <<"count", "how many", "number">>) THEN "count"
    ELSE IF SearchAny(q_lower, <<"fail">>) THEN "fail_rate_pct"
    ELSE ""

\* the if/elif chain that sets entities["metric"]; "" stands for None
ExtractMetric(q_lower) ==
    IF SearchAny(q_lower, <<"avg", "average", "mean">>) THEN "avg"
    ELSE IF SearchAny(q_lower, <<"median">>) THEN "median"
    ELSE IF SearchAny(q_lower, <<"max", "maximum", "highest", "largest">>) THEN "max"
    ELSE IF SearchAny(q_lower, <<"min", "minimum", "lowest", "smallest">>) THEN "min"
    ELSE IF SearchAny(q_lower, <<"total", "sum", "volume">>) THEN "total_volume"
    ELSE IF SearchAny(q_lower, <<"count", "how many", "number">>) THEN "count"
    ELSE IF SearchAny(q_lower, <<"fraud">>) THEN "fraud_rate_pct"
    ELSE IF SearchAny(q_lower, <<"fail">>) THEN "fail_rate_pct"
    ELSE ""

\* extract_entities with a category list that lives on the engine and is
\* not emptied between calls
extract_entities_KeptList(query) ==
    LET q_lower == ToLower(query)
        kept    == IF calls = <<>> THEN <<>> ELSE calls[Len(calls)].entities.categories
    IN  [categories |-> kept \o FoundFrom(CATEGORIES, q_lower, 1),
         states     |-> FoundFrom(STATES, q_lower, 1),
         banks      |-> FoundFrom(BANKS, q_lower, 1),
         devices    |-> FoundFrom(DEVICES, q_lower, 1),
         networks   |-> FoundFrom(NETWORKS, q_lower, 1),
         tx_types   |-> FoundFrom(TX_TYPES, q_lower, 1),
         ages       |-> ExtractAges(query, q_lower),
         months     |-> FoundFrom(MONTHS, q_lower, 1),
         days       |-> FoundFrom(DAYS, q_lower, 1),
         hours      |-> FindHours(q_lower, 1),
         metric     |-> ExtractMetric(q_lower)]

extract_entities(query) ==
    LET q_lower == ToLower(query)
        q_orig  == query
    IN  [categories |-> FoundFrom(CATEGORIES, q_lower, 1),
         states     |-> FoundFrom(STATES, q_lower, 1),
         banks      |-> FoundFrom(BANKS, q_lower, 1),
         devices    |-> FoundFrom(DEVICES, q_lower, 1),
         networks   |-> FoundFrom(NETWORKS, q_lower, 1),
         tx_types   |-> FoundFrom(TX_TYPES, q_lower, 1),
         ages       |-> ExtractAges(q_orig, q_lower),
         months     |-> FoundFrom(MONTHS, q_lower, 1),
         days       |-> FoundFrom(DAYS, q_lower, 1),
         hours      |-> FindHours(q_lower, 1),
         metric     |-> ExtractMetric(q_lower)]

-----------------------------------------------------------------------------
(* The questions asked                                                     *)

\* longest question, in phrases
MaxWords == 2

\* the phrases questions are made of
Words == <<"Rank networks", "by volume", "fraud", "failed", "Shopping", "highest",
           "young", "56+", "3 PM", "hour 19", "January", "Monday", "average",
           "Compare iOS", "hello", "HDFC", "how many", "lowest", "Delhi", "45:00",
           "spike", "18-25", "total">>

\* " ".join(ws)
RECURSIVE Join(_)
Join(ws) ==
    IF ws = <<>> THEN ""
    ELSE IF Len(ws) = 1 THEN ws[1]
    ELSE ws[1] \o " " \o Join(Tail(ws))

\* every question of at most MaxWords phrases, the empty one included
Questions ==
    UNION { { Join([i \in 1..n |-> Words[f[i]]]) : f \in [1..n -> 1..Len(Words)] } : n \in 0..MaxWords }

-----------------------------------------------------------------------------
(* KNOWLEDGE_BASE: the embedded snapshot. A dict is a sequence of          *)
(* [key, val] entries in insertion order.                                  *)

KNOWLEDGE_BASE == [
    meta |-> [source_file |-> "upi_transactions_2024.csv", rows |-> 250000, columns |-> 17],
    total_transactions |-> 250000,
    total_volume_inr |-> 327939009,
    avg_amount |-> 131176,
    median_amount |-> 62900,
    max_amount |-> 42099,
    min_amount |-> 10,
    std_amount |-> 184806,
    fraud_total |-> 480,
    fraud_rate_pct |-> 192,
    success_count |-> 237624,
    failed_count |-> 12376,
    success_rate_pct |-> 9505,
    failed_rate_pct |-> 495,
    peak_hour |-> 19,
    lowest_hour |-> 4,
    weekend_txns |-> 71337,
    weekday_txns |-> 178663,
    p10_amount |-> 14700,
    p25_amount |-> 28800,
    p50_amount |-> 62900,
    p75_amount |-> 159600,
    p90_amount |-> 323600,
    p95_amount |-> 468700,
    p99_amount |-> 900300,
    by_category |-> <<
        [key |-> "Education", val |-> [count |-> 7598, total_volume |-> 38704346, avg |-> 509402, median |-> 367000, max |-> 42099, min |-> 215, fraud_count |-> 16, fraud_rate_pct |-> 211, fail_rate_pct |-> 525]],
        [key |-> "Entertainment", val |-> [count |-> 20103, total_volume |-> 8309080, avg |-> 41333, median |-> 29400, max |-> 5289, min |-> 34, fraud_count |-> 40, fraud_rate_pct |-> 199, fail_rate_pct |-> 492]],
        [key |-> "Food", val |-> [count |-> 37464, total_volume |-> 19919402, avg |-> 53169, median |-> 33200, max |-> 6409, min |-> 10, fraud_count |-> 73, fraud_rate_pct |-> 195, fail_rate_pct |-> 501]],
        [key |-> "Fuel", val |-> [count |-> 25063, total_volume |-> 38982575, avg |-> 155538, median |-> 103700, max |-> 8468, min |-> 134, fraud_count |-> 48, fraud_rate_pct |-> 192, fail_rate_pct |-> 480]],
        [key |-> "Grocery", val |-> [count |-> 49966, total_volume |-> 58277893, avg |-> 116635, median |-> 82100, max |-> 9611, min |-> 33, fraud_count |-> 94, fraud_rate_pct |-> 188, fail_rate_pct |-> 501]],
        [key |-> "Healthcare", val |-> [count |-> 12663, total_volume |-> 6874159, avg |-> 54285, median |-> 38400, max |-> 8485, min |-> 49, fraud_count |-> 21, fraud_rate_pct |-> 166, fail_rate_pct |-> 483]],
        [key |-> "Other", val |-> [count |-> 24828, total_volume |-> 21073449, avg |-> 84878, median |-> 61500, max |-> 19289, min |-> 31, fraud_count |-> 50, fraud_rate_pct |-> 201, fail_rate_pct |-> 495]],
        [key |-> "Shopping", val |-> [count |-> 29872, total_volume |-> 76863207, avg |-> 257309, median |-> 156400, max |-> 27259, min |-> 32, fraud_count |-> 62, fraud_rate_pct |-> 208, fail_rate_pct |-> 509]],
        [key |-> "Transport", val |-> [count |-> 20105, total_volume |-> 6192416, avg |-> 30800, median |-> 18900, max |-> 5171, min |-> 10, fraud_count |-> 43, fraud_rate_pct |-> 214, fail_rate_pct |-> 476]],
        [key |-> "Utilities", val |-> [count |-> 22338, total_volume |-> 52742482, avg |-> 236111, median |-> 186350, max |-> 30351, min |-> 47, fraud_count |-> 33, fraud_rate_pct |-> 148, fail_rate_pct |-> 486]]
    >>,
    by_state |-> <<
        [key |-> "Andhra Pradesh", val |-> [count |-> 20006, total_volume |-> 25952619, avg |-> 129724, fraud_rate_pct |-> 175]],
        [key |-> "Delhi", val |-> [count |-> 24870, total_volume |-> 32689865, avg |-> 131443, fraud_rate_pct |-> 201]],
        [key |-> "Gujarat", val |-> [count |-> 20061, total_volume |-> 25988190, avg |-> 129546, fraud_rate_pct |-> 214]],
        [key |-> "Karnataka", val |-> [count |-> 29756, total_volume |-> 38451158, avg |-> 129222, fraud_rate_pct |-> 232]],
        [key |-> "Maharashtra", val |-> [count |-> 37427, total_volume |-> 49043948, avg |-> 131039, fraud_rate_pct |-> 190]],
        [key |-> "Rajasthan", val |-> [count |-> 19981, total_volume |-> 26730470, avg |-> 133779, fraud_rate_pct |-> 230]],
        [key |-> "Tamil Nadu", val |-> [count |-> 25367, total_volume |-> 33343518, avg |-> 131444, fraud_rate_pct |-> 158]],
        [key |-> "Telangana", val |-> [count |-> 22435, total_volume |-> 29750930, avg |-> 132609, fraud_rate_pct |-> 174]],
        [key |-> "Uttar Pradesh", val |-> [count |-> 30125, total_volume |-> 40035717, avg |-> 132899, fraud_rate_pct |-> 173]],
        [key |-> "West Bengal", val |-> [count |-> 19972, total_volume |-> 25952594, avg |-> 129945, fraud_rate_pct |-> 175]]
    >>,
    by_bank |-> <<
        [key |-> "Axis", val |-> [count |-> 25042, total_volume |-> 32472530, avg |-> 129672, max |-> 37263, fraud_rate_pct |-> 196]],
        [key |-> "HDFC", val |-> [count |-> 37485, total_volume |-> 49791194, avg |-> 132830, max |-> 41210, fraud_rate_pct |-> 165]],
        [key |-> "ICICI", val |-> [count |-> 29769, total_volume |-> 38731193, avg |-> 130106, max |-> 28544, fraud_rate_pct |-> 222]],
        [key |-> "IndusInd", val |-> [count |-> 25173, total_volume |-> 32842711, avg |-> 130468, max |-> 42099, fraud_rate_pct |-> 207]],
        [key |-> "Kotak", val |-> [count |-> 20032, total_volume |-> 26315412, avg |-> 131367, max |-> 30584, fraud_rate_pct |-> 250]],
        [key |-> "PNB", val |-> [count |-> 24946, total_volume |-> 32476972, avg |-> 130189, max |-> 34304, fraud_rate_pct |-> 208]],
        [key |-> "SBI", val |-> [count |-> 62693, total_volume |-> 82816520, avg |-> 132099, max |-> 29601, fraud_rate_pct |-> 174]],
        [key |-> "Yes Bank", val |-> [count |-> 24860, total_volume |-> 32492477, avg |-> 130702, max |-> 33061, fraud_rate_pct |-> 161]]
    >>,
    by_device |-> <<
        [key |-> "Android", val |-> [count |-> 187777, total_volume |-> 246736086, avg |-> 131398, max |-> 42099, fraud_rate_pct |-> 194, fail_rate_pct |-> 494, by_category_avg |-> [Education |-> 509324, Entertainment |-> 41377, Food |-> 52878, Fuel |-> 155557, Grocery |-> 116967, Healthcare |-> 54510, Other |-> 84700, Shopping |-> 259211, Transport |-> 30879, Utilities |-> 235559]]],
        [key |-> "iOS", val |-> [count |-> 49613, total_volume |-> 64799708, avg |-> 130610, max |-> 30351, fraud_rate_pct |-> 181, fail_rate_pct |-> 493, by_category_avg |-> [Education |-> 511623, Entertainment |-> 41307, Food |-> 54216, Fuel |-> 155483, Grocery |-> 116103, Healthcare |-> 54235, Other |-> 84786, Shopping |-> 252461, Transport |-> 30356, Utilities |-> 238435]]],
        [key |-> "Web", val |-> [count |-> 12610, total_volume |-> 16403215, avg |-> 130081, max |-> 27541, fraud_rate_pct |-> 206, fail_rate_pct |-> 515, by_category_avg |-> [Education |-> 502692, Entertainment |-> 40767, Food |-> 53471, Fuel |-> 155480, Grocery |-> 113712, Healthcare |-> 51103, Other |-> 87838, Shopping |-> 248287, Transport |-> 31401, Utilities |-> 235366]]]
    >>,
    by_network |-> <<
        [key |-> "3G", val |-> [count |-> 12471, avg |-> 132588, fraud_rate_pct |-> 192]],
        [key |-> "4G", val |-> [count |-> 149813, avg |-> 130588, fraud_rate_pct |-> 188]],
        [key |-> "5G", val |-> [count |-> 62582, avg |-> 131606, fraud_rate_pct |-> 184]],
        [key |-> "WiFi", val |-> [count |-> 25134, avg |-> 132905, fraud_rate_pct |-> 235]]
    >>,
    by_tx_type |-> <<
        [key |-> "P2P", val |-> [count |-> 112445, total_volume |-> 147154648, avg |-> 130868, fraud_rate_pct |-> 183, fail_rate_pct |-> 496]],
        [key |-> "P2M", val |-> [count |-> 87660, total_volume |-> 115717567, avg |-> 132007, fraud_rate_pct |-> 191, fail_rate_pct |-> 495]],
        [key |-> "Bill Payment", val |-> [count |-> 37368, total_volume |-> 48895743, avg |-> 130849, fraud_rate_pct |-> 206, fail_rate_pct |-> 488]],
        [key |-> "Recharge", val |-> [count |-> 12527, total_volume |-> 16171051, avg |-> 129090, fraud_rate_pct |-> 239, fail_rate_pct |-> 509]]
    >>,
    by_age |-> <<
        [key |-> "18-25", val |-> [count |-> 62345, total_volume |-> 74473936, avg |-> 119455, fraud_rate_pct |-> 229]],
        [key |-> "26-35", val |-> [count |-> 87432, total_volume |-> 115959771, avg |-> 132629, fraud_rate_pct |-> 186]],
        [key |-> "36-45", val |-> [count |-> 62873, total_volume |-> 89533745, avg |-> 142404, fraud_rate_pct |-> 184]],
        [key |-> "46-55", val |-> [count |-> 24841, total_volume |-> 33116261, avg |-> 133313, fraud_rate_pct |-> 125]],
        [key |-> "56+", val |-> [count |-> 12509, total_volume |-> 14855296, avg |-> 118757, fraud_rate_pct |-> 216]]
    >>,
    by_hour |-> <<
        [key |-> "0", val |-> [count |-> 3388, total_volume |-> 4532884, avg |-> 133792, fraud_rate_pct |-> 236]],
        [key |-> "1", val |-> [count |-> 2244, total_volume |-> 2914350, avg |-> 129873, fraud_rate_pct |-> 267]],
        [key |-> "2", val |-> [count |-> 1685, total_volume |-> 2173750, avg |-> 129006, fraud_rate_pct |-> 178]],
        [key |-> "3", val |-> [count |-> 1314, total_volume |-> 1678669, avg |-> 127753, fraud_rate_pct |-> 304]],
        [key |-> "4", val |-> [count |-> 1247, total_volume |-> 1670700, avg |-> 133978, fraud_rate_pct |-> 80]],
        [key |-> "5", val |-> [count |-> 1742, total_volume |-> 2134122, avg |-> 122510, fraud_rate_pct |-> 57]],
        [key |-> "6", val |-> [count |-> 3501, total_volume |-> 4617034, avg |-> 131878, fraud_rate_pct |-> 143]],
        [key |-> "7", val |-> [count |-> 5630, total_volume |-> 7482766, avg |-> 132909, fraud_rate_pct |-> 231]],
        [key |-> "8", val |-> [count |-> 8349, total_volume |-> 10979614, avg |-> 131508, fraud_rate_pct |-> 216]],
        [key |-> "9", val |-> [count |-> 10450, total_volume |-> 13809021, avg |-> 132144, fraud_rate_pct |-> 191]],
        [key |-> "10", val |-> [count |-> 13904, total_volume |-> 18337313, avg |-> 131885, fraud_rate_pct |-> 144]],
        [key |-> "11", val |-> [count |-> 16328, total_volume |-> 21193161, avg |-> 129796, fraud_rate_pct |-> 165]],
        [key |-> "12", val |-> [count |-> 17516, total_volume |-> 23406280, avg |-> 133628, fraud_rate_pct |-> 171]],
        [key |-> "13", val |-> [count |-> 15038, total_volume |-> 19847819, avg |-> 131984, fraud_rate_pct |-> 166]],
        [key |-> "14", val |-> [count |-> 11472, total_volume |-> 14848621, avg |-> 129434, fraud_rate_pct |-> 183]],
        [key |-> "15", val |-> [count |-> 12624, total_volume |-> 16658144, avg |-> 131956, fraud_rate_pct |-> 253]],
        [key |-> "16", val |-> [count |-> 13992, total_volume |-> 17921125, avg |-> 128081, fraud_rate_pct |-> 222]],
        [key |-> "17", val |-> [count |-> 18340, total_volume |-> 24514186, avg |-> 133665, fraud_rate_pct |-> 202]],
        [key |-> "18", val |-> [count |-> 20064, total_volume |-> 26297174, avg |-> 131066, fraud_rate_pct |-> 155]],
        [key |-> "19", val |-> [count |-> 21232, total_volume |-> 28223522, avg |-> 132929, fraud_rate_pct |-> 203]],
        [key |-> "20", val |-> [count |-> 18506, total_volume |-> 23822014, avg |-> 128726, fraud_rate_pct |-> 200]],
        [key |-> "21", val |-> [count |-> 16253, total_volume |-> 20995491, avg |-> 129179, fraud_rate_pct |-> 215]],
        [key |-> "22", val |-> [count |-> 9364, total_volume |-> 12050824, avg |-> 128693, fraud_rate_pct |-> 246]],
        [key |-> "23", val |-> [count |-> 5817, total_volume |-> 7830425, avg |-> 134613, fraud_rate_pct |-> 155]]
    >>,
    by_day |-> <<
        [key |-> "Monday", val |-> [count |-> 36495, total_volume |-> 47882908, avg |-> 131204, fraud_rate_pct |-> 195]],
        [key |-> "Tuesday", val |-> [count |-> 35540, total_volume |-> 46846390, avg |-> 131813, fraud_rate_pct |-> 163]],
        [key |-> "Wednesday", val |-> [count |-> 35700, total_volume |-> 46815663, avg |-> 131136, fraud_rate_pct |-> 210]],
        [key |-> "Thursday", val |-> [count |-> 35432, total_volume |-> 46620985, avg |-> 131579, fraud_rate_pct |-> 203]],
        [key |-> "Friday", val |-> [count |-> 35496, total_volume |-> 46332583, avg |-> 130529, fraud_rate_pct |-> 172]],
        [key |-> "Saturday", val |-> [count |-> 35334, total_volume |-> 45867936, avg |-> 129812, fraud_rate_pct |-> 192]],
        [key |-> "Sunday", val |-> [count |-> 36003, total_volume |-> 47572544, avg |-> 132135, fraud_rate_pct |-> 208]]
    >>,
    by_month |-> <<
        [key |-> "January", val |-> [count |-> 21221, total_volume |-> 27456691, avg |-> 129385, fraud_count |-> 50, fraud_rate_pct |-> 236]],
        [key |-> "February", val |-> [count |-> 19759, total_volume |-> 25826330, avg |-> 130707, fraud_count |-> 34, fraud_rate_pct |-> 172]],
        [key |-> "March", val |-> [count |-> 21234, total_volume |-> 27508202, avg |-> 129548, fraud_count |-> 47, fraud_rate_pct |-> 221]],
        [key |-> "April", val |-> [count |-> 20536, total_volume |-> 26988791, avg |-> 131422, fraud_count |-> 33, fraud_rate_pct |-> 161]],
        [key |-> "May", val |-> [count |-> 21333, total_volume |-> 28024857, avg |-> 131369, fraud_count |-> 37, fraud_rate_pct |-> 173]],
        [key |-> "June", val |-> [count |-> 20628, total_volume |-> 27032118, avg |-> 131046, fraud_count |-> 30, fraud_rate_pct |-> 145]],
        [key |-> "July", val |-> [count |-> 21207, total_volume |-> 28079905, avg |-> 132409, fraud_count |-> 52, fraud_rate_pct |-> 245]],
        [key |-> "August", val |-> [count |-> 21231, total_volume |-> 27845907, avg |-> 131157, fraud_count |-> 33, fraud_rate_pct |-> 155]],
        [key |-> "September", val |-> [count |-> 20597, total_volume |-> 27105761, avg |-> 131601, fraud_count |-> 42, fraud_rate_pct |-> 204]],
        [key |-> "October", val |-> [count |-> 21252, total_volume |-> 27866829, avg |-> 131126, fraud_count |-> 45, fraud_rate_pct |-> 212]],
        [key |-> "November", val |-> [count |-> 20366, total_volume |-> 26892531, avg |-> 132046, fraud_count |-> 39, fraud_rate_pct |-> 191]],
        [key |-> "December", val |-> [count |-> 20636, total_volume |-> 27311087, avg |-> 132347, fraud_count |-> 38, fraud_rate_pct |-> 184]]
    >>,
    weekend |-> [count |-> 71337, avg |-> 130985, total_volume |-> 93440480, fraud_rate_pct |-> 200],
    weekday |-> [count |-> 178663, avg |-> 131252, total_volume |-> 234498529, fraud_rate_pct |-> 189],
    amount_distribution |-> <<
        [key |-> "under_100", val |-> 13099],
        [key |-> "100_to_500", val |-> 93363],
        [key |-> "500_to_1000", val |-> 51135],
        [key |-> "1000_to_5000", val |-> 81444],
        [key |-> "5000_to_10000", val |-> 9154],
        [key |-> "above_10000", val |-> 1805]
    >>,
    top10_transactions |-> <<
        [amount |-> 42099, category |-> "Education", type |-> "P2P", state |-> "Telangana", device |-> "Android", network |-> "4G", status |-> "FAILED", fraud |-> 0, hour |-> 1, day |-> "Sunday"],
        [amount |-> 41210, category |-> "Education", type |-> "Bill Payment", state |-> "Maharashtra", device |-> "Android", network |-> "4G", status |-> "SUCCESS", fraud |-> 0, hour |-> 14, day |-> "Saturday"],
        [amount |-> 37263, category |-> "Education", type |-> "Recharge", state |-> "Rajasthan", device |-> "Android", network |-> "WiFi", status |-> "SUCCESS", fraud |-> 0, hour |-> 22, day |-> "Tuesday"],
        [amount |-> 34304, category |-> "Education", type |-> "P2P", state |-> "Andhra Pradesh", device |-> "Android", network |-> "5G", status |-> "SUCCESS", fraud |-> 0, hour |-> 17, day |-> "Friday"],
        [amount |-> 33061, category |-> "Education", type |-> "P2P", state |-> "Rajasthan", device |-> "Android", network |-> "WiFi", status |-> "SUCCESS", fraud |-> 0, hour |-> 23, day |-> "Monday"],
        [amount |-> 32741, category |-> "Education", type |-> "P2P", state |-> "West Bengal", device |-> "Android", network |-> "WiFi", status |-> "SUCCESS", fraud |-> 0, hour |-> 17, day |-> "Friday"],
        [amount |-> 30584, category |-> "Education", type |-> "P2P", state |-> "Andhra Pradesh", device |-> "Android", network |-> "5G", status |-> "SUCCESS", fraud |-> 0, hour |-> 20, day |-> "Wednesday"],
        [amount |-> 30351, category |-> "Utilities", type |-> "P2P", state |-> "West Bengal", device |-> "iOS", network |-> "WiFi", status |-> "SUCCESS", fraud |-> 0, hour |-> 23, day |-> "Wednesday"],
        [amount |-> 30112, category |-> "Education", type |-> "P2M", state |-> "Telangana", device |-> "Android", network |-> "5G", status |-> "SUCCESS", fraud |-> 0, hour |-> 21, day |-> "Monday"],
        [amount |-> 29601, category |-> "Education", type |-> "P2M", state |-> "Uttar Pradesh", device |-> "Android", network |-> "3G", status |-> "SUCCESS", fraud |-> 0, hour |-> 7, day |-> "Tuesday"]
    >>,
    fraud_analysis |-> [total |-> 480, avg_amount |-> 149923, max_amount |-> 17718, min_amount |-> 28, top_category |-> "Grocery", top_state |-> "Maharashtra", top_bank |-> "SBI", top_device |-> "Android", top_hour |-> 19]
]

\* dim.get(name) is not None
Has(dim, name) == \E i \in 1..Len(dim) : dim[i].key = name

\* dim[name]
Get(dim, name) == dim[CHOOSE i \in 1..Len(dim) : dim[i].key = name].val

\* kb.get(dimension_key, {})
DimOf(k, dimension_key) == IF dimension_key \in DOMAIN k THEN k[dimension_key] ELSE <<>>

\* max(dim.items(), key=lambda x: x[1][metric])[0]: the first key whose
\* value is the largest
ArgMax(dim, metric) ==
    dim[CHOOSE i \in 1..Len(dim) :
            /\ \A j \in 1..Len(dim) : dim[j].val[metric] <= dim[i].val[metric]
            /\ \A j \in 1..(i - 1) : dim[j].val[metric] < dim[i].val[metric]].key

\* min(dim.items(), key=lambda x: x[1][metric])[0]: the first key whose
\* value is the smallest
ArgMin(dim, metric) ==
    dim[CHOOSE i \in 1..Len(dim) :
            /\ \A j \in 1..Len(dim) : dim[j].val[metric] >= dim[i].val[metric]
            /\ \A j \in 1..(i - 1) : dim[j].val[metric] > dim[i].val[metric]].key

\* every record of the mapping has the metric (no KeyError in a key= lambda)
AllHave(dim, metric) == \A i \in 1..Len(dim) : metric \in DOMAIN dim[i].val

-----------------------------------------------------------------------------
(* ResponseGenerator                                                       *)

\* the keys of a mapping, list(d.keys())
KeysOf(dim) == [i \in 1..Len(dim) |-> dim[i].key]

\* s.replace(a, b) for a one-character a
RECURSIVE ReplaceAll(_, _, _)
ReplaceAll(s, a, b) ==
    IF s = "" THEN ""
    ELSE (IF SubSeq(s, 1, 1) = a THEN b ELSE SubSeq(s, 1, 1))
             \o ReplaceAll(SubSeq(s, 2, Len(s)), a, b)

\* one entry of a stats dict: its key and the Python type of its value
Str(key) == [key |-> key, type |-> "str"]

\* the entries of a stats dict whose values are all f-strings or strings
StrEach(keys) == [i \in 1..Len(keys) |-> Str(keys[i])]

\* A response: intent, confidence and entities_used as in the code; names
\* and values are the knowledge-base keys and numbers its texts cite, in
\* the order they are cited; stats are the keys of the stats dict with the
\* type of their values; amount is the text _fmt_inr gives for the value
\* the answer of _amount_report reports about an entity ("" in the other
\* answers); error is the exception the handler raised instead of
\* returning ("" when it returned).
Resp(intent, confidence, used, names, values, stats) ==
    [intent |-> intent, confidence |-> confidence, entities_used |-> used,
     names |-> names, values |-> values, stats |-> stats, amount |-> "",
     error |-> ""]

Raised(err) ==
    [intent |-> "", confidence |-> 0, entities_used |-> <<>>,
     names |-> <<>>, values |-> <<>>, stats |-> <<>>, amount |-> "",
     error |-> err]

\* [(k, v.get(metric, 0)) for k, v in dim.items() if metric in v]
RECURSIVE ItemsWith(_, _, _)
ItemsWith(dim, metric, i) ==
    IF i > Len(dim) THEN <<>>
    ELSE (IF metric \in DOMAIN dim[i].val
          THEN << [name |-> dim[i].key, value |-> dim[i].val[metric]] >> ELSE <<>>)
         \o ItemsWith(dim, metric, i + 1)

\* a sort that, when descending, puts a later item before the earlier
\* items of the same value (an ascending sort read backwards)
RECURSIVE SortedBy_TiesReversed(_, _)
SortedBy_TiesReversed(items, reverse) ==
    IF items = <<>> THEN <<>>
    ELSE LET init == SortedBy_TiesReversed(SubSeq(items, 1, Len(items) - 1), reverse)
             x    == items[Len(items)]
             p    == Cardinality({i \in 1..Len(init) :
                         IF reverse THEN init[i].value > x.value
                                    ELSE init[i].value <= x.value})
         IN  SubSeq(init, 1, p) \o <<x>> \o SubSeq(init, p + 1, Len(init))

\* sorted(items, key=lambda x: x[1], reverse=reverse): a stable sort; with
\* reverse=True equal values also keep their original order
RECURSIVE SortedBy(_, _)
SortedBy(items, reverse) ==
    IF items = <<>> THEN <<>>
    ELSE LET init == SortedBy(SubSeq(items, 1, Len(items) - 1), reverse)
             x    == items[Len(items)]
             p    == Cardinality({i \in 1..Len(init) :
                         IF reverse THEN init[i].value >= x.value
                                    ELSE init[i].value <= x.value})
         IN  SubSeq(init, 1, p) \o <<x>> \o SubSeq(init, p + 1, Len(init))

\* s[:n]
Take(s, n) == SubSeq(s, 1, IF Len(s) < n THEN Len(s) ELSE n)

\* _rank_by that always sorts from the smallest value up
_rank_by_Ascending(k, dimension_key, metric, top_n, reverse) ==
    Take(SortedBy(ItemsWith(DimOf(k, dimension_key), metric, 1), FALSE), top_n)

_rank_by(k, dimension_key, metric, top_n, reverse) ==
    Take(SortedBy(ItemsWith(DimOf(k, dimension_key), metric, 1), reverse), top_n)

\* round(a / b) for b > 0: to the nearest integer, a tie to the even one
RoundDiv(a, b) ==
    LET q == a \div b
        r == a % b
    IN  IF 2 * r < b THEN q
        ELSE IF 2 * r > b THEN q + 1
        ELSE IF q % 2 = 0 THEN q ELSE q + 1

\* the exception _overview raises, "" when it returns
OverviewError(k) ==
    IF k.by_category = <<>> \/ k.by_state = <<>> THEN "ValueError"
    ELSE IF \/ ~AllHave(k.by_category, "total_volume")
            \/ ~AllHave(k.by_state, "total_volume")
            \/ ~AllHave(k.by_state, "fraud_rate_pct")
            \/ ~Has(k.by_hour, StrOf(k.peak_hour))
            \/ ~Has(k.by_hour, "19")
            \/ ~Has(k.by_category, "Grocery")
            \/ ~Has(k.by_category, "Shopping")
            \/ ~Has(k.by_state, "Maharashtra")
         THEN "KeyError"
    ELSE ""

_overview(k) ==
    IF OverviewError(k) # "" THEN Raised(OverviewError(k))
    ELSE LET top_cat_by_vol      == ArgMax(k.by_category, "total_volume")
             top_state           == ArgMax(k.by_state, "total_volume")
             highest_fraud_state == ArgMax(k.by_state, "fraud_rate_pct")
         IN  Resp("OVERVIEW", 99, <<"all">>,
                  <<top_cat_by_vol, top_state, highest_fraud_state>>,
                  <<k.total_transactions, k.total_volume_inr, k.avg_amount,
                    k.success_rate_pct, k.fraud_rate_pct, k.fraud_total,
                    Get(k.by_state, highest_fraud_state).fraud_rate_pct>>,
                  StrEach(<<"Total Transactions", "Total Volume", "Avg Transaction",
                            "Median Transaction", "Max Transaction", "Success Rate",
                            "Failed Transactions", "Fraud Cases", "Peak Hour",
                            "Top Category by Volume", "Top State by Volume",
                            "Highest Fraud State">>))

\* x in seq
InSeq(x, seq) == \E i \in 1..Len(seq) : seq[i] = x

\* <<d.get(f)>>, empty when the record has no such field (None)
Opt(d, f) == IF f \in DOMAIN d THEN <<d[f]>> ELSE <<>>

\* the seven entity lists a handler narrows to, with their KB dimension, in
\* the order the if/elif chains and the loop of _amount_report go through
ENTITY_DIMS == <<
    [dim_key |-> "by_category", list |-> "categories"],
    [dim_key |-> "by_state",    list |-> "states"],
    [dim_key |-> "by_bank",     list |-> "banks"],
    [dim_key |-> "by_device",   list |-> "devices"],
    [dim_key |-> "by_network",  list |-> "networks"],
    [dim_key |-> "by_tx_type",  list |-> "tx_types"],
    [dim_key |-> "by_age",      list |-> "ages"] >>

\* the first of the seven lists that is not empty (0: all are empty)
FirstEntityDim(entities) ==
    IF \E i \in 1..Len(ENTITY_DIMS) : entities[ENTITY_DIMS[i].list] # <<>>
    THEN CHOOSE i \in 1..Len(ENTITY_DIMS) :
            /\ entities[ENTITY_DIMS[i].list] # <<>>
            /\ \A j \in 1..(i - 1) : entities[ENTITY_DIMS[j].list] = <<>>
    ELSE 0

\* the leaderboard branch of _fraud_report
FraudLeaderboard(k) ==
    LET fraud_by_state   == _rank_by(k, "by_state", "fraud_rate_pct", 5, TRUE)
        fraud_by_cat     == _rank_by(k, "by_category", "fraud_rate_pct", 5, TRUE)
        fraud_by_bank    == _rank_by(k, "by_bank", "fraud_rate_pct", 5, TRUE)
        fraud_by_network == _rank_by(k, "by_network", "fraud_rate_pct", 5, TRUE)
        fraud_by_type    == _rank_by(k, "by_tx_type", "fraud_rate_pct", 5, TRUE)
        fraud_by_age     == _rank_by(k, "by_age", "fraud_rate_pct", 5, TRUE)
        safest_network   == _rank_by(k, "by_network", "fraud_rate_pct", 5, FALSE)
        safest_state     == fraud_by_state[Len(fraud_by_state)]
    IN  IF \/ fraud_by_state = <<>> \/ fraud_by_cat = <<>> \/ fraud_by_bank = <<>>
           \/ fraud_by_network = <<>> \/ fraud_by_type = <<>> \/ fraud_by_age = <<>>
        THEN Raised("IndexError")
        ELSE IF "fraud_analysis" \notin DOMAIN k THEN Raised("KeyError")
        ELSE Resp("FRAUD", 98, <<"all">>,
                  <<fraud_by_state[1].name, fraud_by_cat[1].name, fraud_by_bank[1].name,
                    fraud_by_network[1].name, fraud_by_type[1].name, fraud_by_age[1].name,
                    safest_state.name, safest_network[1].name>>,
                  <<k.fraud_rate_pct, k.fraud_total,
                    fraud_by_state[1].value, fraud_by_cat[1].value, fraud_by_bank[1].value,
                    fraud_by_network[1].value, fraud_by_type[1].value, fraud_by_age[1].value,
                    safest_state.value, safest_network[1].value>>,
                  \* "Total Fraud Cases": kb['fraud_total'], the number itself
                  <<[key |-> "Total Fraud Cases", type |-> "int"]>>
                      \o StrEach(<<"Overall Rate", "Riskiest State", "Riskiest Category",
                                   "Riskiest Bank", "Riskiest Network", "Riskiest Tx Type",
                                   "Riskiest Age Group", "Safest State", "Safest Network",
                                   "Fraud Avg Amount", "Fraud Max Amount">>))

_fraud_report(k, entities) ==
    LET e           == FirstEntityDim(entities)
        dim_key     == ENTITY_DIMS[e].dim_key
        entity_name == entities[ENTITY_DIMS[e].list][1]
    IN  IF e # 0 /\ Has(k[dim_key], entity_name)
        THEN LET section == Get(k[dim_key], entity_name)
                 rate    == IF "fraud_rate_pct" \in DOMAIN section
                            THEN section.fraud_rate_pct ELSE 0
                 overall == k.fraud_rate_pct
             IN  IF overall = 0 THEN Raised("ZeroDivisionError")
                 ELSE IF "count" \notin DOMAIN section THEN Raised("ValueError")
                 ELSE Resp("FRAUD", 95, <<entity_name>>, <<entity_name>>,
                           <<rate, overall, RoundDiv((rate - overall) * 1000, overall),
                             section.count>>,
                           StrEach(<<"Entity", "Fraud Rate", "Overall Average",
                                     "Relative Difference", "Transaction Count">>))
        ELSE FraudLeaderboard(k)

_failure_report(k, entities) ==
    LET fail_by_cat  == _rank_by(k, "by_category", "fail_rate_pct", 5, TRUE)
        fail_by_dev  == _rank_by(k, "by_device", "fail_rate_pct", 5, TRUE)
        fail_by_type == _rank_by(k, "by_tx_type", "fail_rate_pct", 5, TRUE)
    IN  IF entities.categories # <<>>
        THEN LET cat == entities.categories[1]
                 d   == IF Has(k.by_category, cat) THEN Get(k.by_category, cat)
                        ELSE [x \in {} |-> 0]
             IN  IF "count" \notin DOMAIN d THEN Raised("TypeError")
                 ELSE Resp("FAILURE", 93, <<cat>>, <<cat>>,
                           Opt(d, "fail_rate_pct") \o <<d.count, k.failed_rate_pct>>,
                           StrEach(<<"Category", "Failure Rate", "Count">>))
        ELSE IF fail_by_cat = <<>> \/ fail_by_dev = <<>> \/ fail_by_type = <<>>
             THEN Raised("IndexError")
        ELSE Resp("FAILURE", 95, <<"all">>,
                  [i \in 1..Len(Take(fail_by_cat, 3)) |-> fail_by_cat[i].name]
                      \o <<fail_by_dev[1].name, fail_by_type[1].name>>,
                  <<k.failed_rate_pct, k.failed_count>>
                      \o [i \in 1..Len(Take(fail_by_cat, 3)) |-> fail_by_cat[i].value]
                      \o <<fail_by_dev[1].value, fail_by_type[1].value>>,
                  StrEach(<<"Total Failed", "Failure Rate">>
                      \o [i \in 1..Len(Take(fail_by_cat, 3)) |-> "Fail #" \o StrOf(i)]
                      \o <<"Worst Device", "Worst Tx Type">>))

\* re.search(a\s*b, s) when min = 0 and re.search(a\s+b, s) when min = 1,
\* for literals a and b (b does not start with a space)
SearchSpaced(s, a, b, min) ==
    \E i \in 1..(Len(s) - Len(a) + 1) :
        /\ SubSeq(s, i, i + Len(a) - 1) = a
        /\ LET j == SkipSpaces(s, i + Len(a))
           IN  /\ j - (i + Len(a)) >= min
               /\ j + Len(b) - 1 <= Len(s)
               /\ SubSeq(s, j, j + Len(b) - 1) = b

\* sum(d.values())
RECURSIVE SumVals(_)
SumVals(d) == IF d = <<>> THEN 0 ELSE Head(d).val + SumVals(Tail(d))

\* 10 ** n
RECURSIVE Pow10(_)
Pow10(n) == IF n = 0 THEN 1 ELSE 10 * Pow10(n - 1)

\* the digits of n, at least width of them
RECURSIVE Padded(_, _)
Padded(n, width) ==
    IF Len(StrOf(n)) >= width THEN StrOf(n) ELSE "0" \o Padded(n, width - 1)

\* f"{x:.<decimals>f}" of x = n / 10 ** decimals, n >= 0
Fixed(n, decimals) ==
    IF decimals = 0 THEN StrOf(n)
    ELSE StrOf(n \div Pow10(decimals)) \o "."
             \o SubSeq(Padded(n, decimals + 1),
                       Len(Padded(n, decimals + 1)) - decimals + 1,
                       Len(Padded(n, decimals + 1)))

\* the unit of the numbers of the model that stand for a metric: the
\* value of the code is the number divided by ScaleOf(metric)
ScaleOf(metric) ==
    IF metric = "fraud_rate_pct" THEN 1000
    ELSE IF metric \in {"avg", "median", "fail_rate_pct"} THEN 100
    ELSE 1

\* _fmt_inr that tests the lakh threshold before the crore threshold
_fmt_inr_LakhFirst(val, scale) ==
    IF val \div scale >= 100000
    THEN "₹" \o Fixed(RoundDiv(val, scale * 1000), 2) \o " L"
    ELSE IF val \div scale >= 1000
    THEN "₹" \o Fixed(RoundDiv(val, scale * 100), 1) \o "K"
    ELSE "₹" \o StrOf(RoundDiv(val, scale))

\* _fmt_inr(val / scale) for val >= 0. The code rounds the binary float
\* val/1e7, val/1e5, val/1e3 or val; RoundDiv rounds the decimal value,
\* which gives the same digits except at an exact decimal tie.
_fmt_inr(val, scale) ==
    IF val \div scale >= 10000000
    THEN "₹" \o Fixed(RoundDiv(val, scale * 100000), 2) \o " Cr"
    ELSE IF val \div scale >= 100000
    THEN "₹" \o Fixed(RoundDiv(val, scale * 1000), 2) \o " L"
    ELSE IF val \div scale >= 1000
    THEN "₹" \o Fixed(RoundDiv(val, scale * 100), 1) \o "K"
    ELSE "₹" \o StrOf(RoundDiv(val, scale))

_amount_report(k, entities, raw_query) ==
    LET metric == IF entities.metric # "" THEN entities.metric ELSE "avg"
        q      == ToLower(raw_query)
        e      == FirstEntityDim(entities)
    IN  IF e # 0
        THEN LET name    == entities[ENTITY_DIMS[e].list][1]
                 dim     == DimOf(k, ENTITY_DIMS[e].dim_key)
                 section == IF Has(dim, name) THEN Get(dim, name) ELSE [x \in {} |-> 0]
                 \* section.get(metric) or section.get("avg")
                 val     == IF metric \in DOMAIN section /\ section[metric] # 0
                            THEN <<section[metric]>> ELSE Opt(section, "avg")
             IN  IF val = <<>> THEN Raised("TypeError")
                 ELSE IF "count" \notin DOMAIN section THEN Raised("ValueError")
                 ELSE [Resp("AMOUNT", 96, <<name>>, <<name, metric>>,
                            val \o <<section.count>> \o Opt(section, "total_volume")
                                \o <<k.avg_amount>>,
                            StrEach(<<"Entity", "Metric", "Value", "Count",
                                      "Total Volume">>))
                       EXCEPT !.amount = _fmt_inr(val[1], ScaleOf(metric))]
        ELSE IF \/ SearchSpaced(q, "top", "10", 0)
                \/ SearchAny(q, <<"largest", "biggest">>)
                \/ SearchSpaced(q, "highest", "transaction", 1)
             THEN IF k.top10_transactions = <<>> THEN Raised("IndexError")
                  ELSE Resp("AMOUNT", 99, <<"top10">>,
                            [i \in 1..Len(k.top10_transactions) |->
                                k.top10_transactions[i].category],
                            [i \in 1..Len(k.top10_transactions) |->
                                k.top10_transactions[i].amount]
                                \o <<k.max_amount, k.min_amount, k.median_amount,
                                     k.p90_amount, k.p99_amount>>,
                            StrEach(<<"Max", "Min", "Median", "p90", "p99">>))
        ELSE IF SearchAny(q, <<"distribut", "bucket", "range", "bracket">>)
             THEN LET d == k.amount_distribution
                  IN  IF ~Has(d, "above_10000") THEN Raised("KeyError")
                      ELSE IF SumVals(d) = 0 THEN Raised("ZeroDivisionError")
                      ELSE Resp("AMOUNT", 97, <<"distribution">>,
                                [i \in 1..Len(d) |-> d[i].key],
                                <<Get(d, "above_10000")>> \o [i \in 1..Len(d) |-> d[i].val],
                                \* k.replace("_", " → ₹"): f"{v:,} (...%)"
                                StrEach([i \in 1..Len(d) |->
                                            ReplaceAll(d[i].key, "_", " → ₹")]))
        ELSE Resp("AMOUNT", 95, <<"global">>, <<>>,
                  <<k.avg_amount, k.median_amount, k.max_amount, k.min_amount,
                    k.std_amount, k.p90_amount, k.p95_amount, k.p99_amount>>,
                  StrEach(<<"Mean", "Median", "Max", "Min", "Std Dev", "p90", "p95",
                            "p99">>))

_trend_report(k, entities, raw_query) ==
    LET q == ToLower(raw_query)
    IN  IF \/ SearchAny(q, <<"month", "jan", "feb", "mar", "apr", "may", "jun", "jul",
                             "aug", "sep", "oct", "nov", "dec">>)
           \/ entities.months # <<>>
        THEN LET months == k.by_month
             IN  IF months = <<>> THEN Raised("ValueError")
                 ELSE IF \/ ~AllHave(months, "fraud_rate_pct")
                         \/ ~AllHave(months, "total_volume")
                         \/ ~Has(months, "July")
                      THEN Raised("KeyError")
                 ELSE LET top_vol_month == ArgMax(months, "total_volume")
                      IN  Resp("TREND", 93, <<"by_month">>, <<"July", top_vol_month>>,
                               <<Get(months, "July").fraud_rate_pct,
                                 Get(months, top_vol_month).total_volume>>,
                               StrEach(KeysOf(months)))
        ELSE IF SearchAny(q, <<"hour", "peak", "time", "when", "busiest", "am", "pm">>)
        THEN LET hours == k.by_hour
             IN  IF hours = <<>> THEN Raised("ValueError")
                 ELSE IF ~AllHave(hours, "count") \/ ~AllHave(hours, "fraud_rate_pct")
                      THEN Raised("KeyError")
                 ELSE LET peak            == ArgMax(hours, "count")
                          quiet           == ArgMin(hours, "count")
                          high_fraud_hour == ArgMax(hours, "fraud_rate_pct")
                      IN  Resp("TREND", 97, <<"by_hour">>, <<peak, quiet, high_fraud_hour>>,
                               <<Get(hours, peak).count,
                                 Get(hours, high_fraud_hour).fraud_rate_pct>>,
                               StrEach([i \in 1..Len(hours) |-> hours[i].key \o ":00"]))
        ELSE IF SearchAny(q, <<"day", "week", "monday", "tuesday", "weekend", "weekday">>)
        THEN LET days == k.by_day
             IN  IF days = <<>> THEN Raised("ValueError")
                 ELSE IF \/ ~AllHave(days, "count") \/ ~AllHave(days, "fraud_rate_pct")
                         \/ "weekend" \notin DOMAIN k \/ "weekday" \notin DOMAIN k
                      THEN Raised("KeyError")
                 ELSE Resp("TREND", 90, <<"by_day">>, <<ArgMax(days, "count")>>,
                           <<k.weekend.avg, k.weekend.fraud_rate_pct,
                             k.weekday.avg, k.weekday.fraud_rate_pct>>,
                           StrEach(KeysOf(days) \o <<"Weekend avg", "Weekday avg">>))
        ELSE _overview(k)

\* RankTarget that looks for the bank cue before the state cue
RankTarget_BankFirst(q) ==
    IF SearchAny(q, <<"bank">>)
    THEN [dim_key |-> "by_bank", dim |-> "bank", top_n |-> 8]
    ELSE IF SearchAny(q, <<"state", "region", "city">>)
    THEN [dim_key |-> "by_state", dim |-> "state", top_n |-> 10]
    ELSE IF SearchAny(q, <<"categor", "merchant">>)
    THEN [dim_key |-> "by_category", dim |-> "merchant category", top_n |-> 10]
    ELSE IF SearchAny(q, <<"device", "android", "ios", "web">>)
    THEN [dim_key |-> "by_device", dim |-> "device", top_n |-> 3]
    ELSE IF SearchAny(q, <<"network", "4g", "5g", "wifi", "3g">>)
    THEN [dim_key |-> "by_network", dim |-> "network", top_n |-> 4]
    ELSE IF SearchAny(q, <<"age", "group", "youth", "senior">>)
    THEN [dim_key |-> "by_age", dim |-> "age group", top_n |-> 5]
    ELSE IF SearchAny(q, <<"type", "p2p", "p2m", "recharge", "bill">>)
    THEN [dim_key |-> "by_tx_type", dim |-> "transaction type", top_n |-> 4]
    ELSE [dim_key |-> "by_category", dim |-> "merchant category", top_n |-> 10]

\* the dimension, its label and its top-N that _rank_report picks from the
\* keyword cues of the lower-cased query
RankTarget(q) ==
    IF SearchAny(q, <<"state", "region", "city">>)
    THEN [dim_key |-> "by_state", dim |-> "state", top_n |-> 10]
    ELSE IF SearchAny(q, <<"categor", "merchant">>)
    THEN [dim_key |-> "by_category", dim |-> "merchant category", top_n |-> 10]
    ELSE IF SearchAny(q, <<"bank">>)
    THEN [dim_key |-> "by_bank", dim |-> "bank", top_n |-> 8]
    ELSE IF SearchAny(q, <<"device", "android", "ios", "web">>)
    THEN [dim_key |-> "by_device", dim |-> "device", top_n |-> 3]
    ELSE IF SearchAny(q, <<"network", "4g", "5g", "wifi", "3g">>)
    THEN [dim_key |-> "by_network", dim |-> "network", top_n |-> 4]
    ELSE IF SearchAny(q, <<"age", "group", "youth", "senior">>)
    THEN [dim_key |-> "by_age", dim |-> "age group", top_n |-> 5]
    ELSE IF SearchAny(q, <<"type", "p2p", "p2m", "recharge", "bill">>)
    THEN [dim_key |-> "by_tx_type", dim |-> "transaction type", top_n |-> 4]
    ELSE [dim_key |-> "by_category", dim |-> "merchant category", top_n |-> 10]

\* the metric _rank_report ranks by
RankMetric(q) ==
    IF Contains(q, "fraud") THEN "fraud_rate_pct"
    ELSE IF SearchAny(q, <<"volume", "total", "sum">>) THEN "total_volume"
    ELSE IF SearchAny(q, <<"count", "number", "transactions">>) THEN "count"
    ELSE "avg"

_rank_report(k, entities, raw_query) ==
    LET q       == ToLower(raw_query)
        reverse == ~SearchAny(q, <<"lowest", "safest", "least", "worst performance",
                                   "minimum">>)
        metric  == RankMetric(q)
        target  == RankTarget(q)
        ranked  == _rank_by(k, target.dim_key, metric, target.top_n, reverse)
    IN  \* top_name, top_val = ranked[0]
        IF ranked = <<>> THEN Raised("IndexError")
        ELSE Resp("RANK", 94, <<target.dim>>,
                  [i \in 1..Len(ranked) |-> ranked[i].name],
                  [i \in 1..Len(ranked) |-> ranked[i].value],
                  StrEach([i \in 1..Len(ranked) |->
                              "#" \o StrOf(i) \o " " \o ranked[i].name]))

\* one cross-tabulation of _compare_report over the fields its stats read
CompareTable(dim, fields, confidence) ==
    IF \E f \in fields : ~AllHave(dim, f) THEN Raised("KeyError")
    ELSE Resp("COMPARE", confidence, KeysOf(dim), KeysOf(dim),
              [i \in 1..Len(dim) |-> dim[i].val.count], StrEach(KeysOf(dim)))

\* _compare_report that looks for the network cue first
_compare_report_NetworkFirst(k, entities, raw_query) ==
    LET q == ToLower(raw_query)
    IN  IF SearchAny(q, <<"network", "4g", "5g", "wifi", "3g">>)
        THEN CompareTable(k.by_network, {"count", "avg", "fraud_rate_pct"}, 96)
        ELSE IF SearchAny(q, <<"device", "android", "ios", "web">>)
        THEN CompareTable(k.by_device, {"avg", "fraud_rate_pct", "fail_rate_pct", "count"}, 96)
        ELSE IF SearchAny(q, <<"p2p", "p2m", "recharge", "bill", "payment", "type">>)
        THEN CompareTable(k.by_tx_type, {"count", "avg", "fraud_rate_pct"}, 95)
        ELSE _rank_report(k, entities, raw_query)

_compare_report(k, entities, raw_query) ==
    LET q == ToLower(raw_query)
    IN  IF SearchAny(q, <<"device", "android", "ios", "web">>)
        THEN CompareTable(k.by_device, {"avg", "fraud_rate_pct", "fail_rate_pct", "count"}, 96)
        ELSE IF SearchAny(q, <<"p2p", "p2m", "recharge", "bill", "payment", "type">>)
        THEN CompareTable(k.by_tx_type, {"count", "avg", "fraud_rate_pct"}, 95)
        ELSE IF SearchAny(q, <<"network", "4g", "5g", "wifi", "3g">>)
        THEN CompareTable(k.by_network, {"count", "avg", "fraud_rate_pct"}, 96)
        ELSE _rank_report(k, entities, raw_query)

_entity_deep_dive(k, entities) ==
    IF entities.categories # <<>>
    THEN LET cat == entities.categories[1]
             d   == IF Has(k.by_category, cat) THEN Get(k.by_category, cat)
                    ELSE [x \in {} |-> 0]
         IN  IF ~AllHave(k.by_device, "by_category_avg") THEN Raised("KeyError")
             ELSE IF "max" \notin DOMAIN d THEN Raised("TypeError")
             ELSE Resp("ENTITY_DEEP_DIVE", 96, <<cat>>, <<cat>>,
                       Opt(d, "count") \o Opt(d, "total_volume") \o Opt(d, "avg")
                           \o Opt(d, "median") \o <<d.max>> \o Opt(d, "min")
                           \o Opt(d, "fraud_rate_pct") \o Opt(d, "fail_rate_pct"),
                       StrEach(<<"Count", "Total Volume", "Avg Amount", "Median", "Max",
                                 "Min", "Fraud Rate", "Fail Rate", "Android Avg",
                                 "iOS Avg", "Web Avg">>))
    ELSE IF entities.states # <<>>
    THEN LET state == entities.states[1]
             d     == IF Has(k.by_state, state) THEN Get(k.by_state, state)
                      ELSE [x \in {} |-> 0]
         IN  Resp("ENTITY_DEEP_DIVE", 95, <<state>>, <<state>>,
                  Opt(d, "count") \o Opt(d, "total_volume") \o Opt(d, "avg")
                      \o Opt(d, "fraud_rate_pct") \o <<k.fraud_rate_pct>>,
                  StrEach(<<"State", "Transaction Count", "Total Volume", "Avg Amount",
                            "Fraud Rate", "National Avg Fraud">>))
    ELSE _overview(k)

\* any(entities[k] for k in lists)
AnyEntity(entities, lists) == \E l \in lists : entities[l] # <<>>

\* the dispatch with the TREND test moved before the FAILURE test
Dispatch_TrendBeforeFailure(intents, entities) ==
    IF /\ InSeq("OVERVIEW", intents)
       /\ ~AnyEntity(entities, {"categories", "states", "banks", "devices", "networks",
                                "tx_types", "ages", "months", "days"})
    THEN "Overview"
    ELSE IF InSeq("FRAUD", intents) THEN "Fraud"
    ELSE IF InSeq("TREND", intents) THEN "Trend"
    ELSE IF InSeq("FAILURE", intents) THEN "Failure"
    ELSE IF InSeq("RANK", intents) THEN "Rank"
    ELSE IF InSeq("COMPARE", intents) THEN "Compare"
    ELSE IF InSeq("AMOUNT", intents) \/ InSeq("VOLUME", intents) \/ InSeq("COUNT", intents)
    THEN "Amount"
    ELSE IF AnyEntity(entities, {"categories", "states", "banks", "devices", "networks",
                                 "tx_types", "ages"})
    THEN "EntityDeepDive"
    ELSE "Overview"

\* the handler generate dispatches to, by its if chain
Dispatch(intents, entities) ==
    IF /\ InSeq("OVERVIEW", intents)
       /\ ~AnyEntity(entities, {"categories", "states", "banks", "devices", "networks",
                                "tx_types", "ages", "months", "days"})
    THEN "Overview"
    ELSE IF InSeq("FRAUD", intents) THEN "Fraud"
    ELSE IF InSeq("FAILURE", intents) THEN "Failure"
    ELSE IF InSeq("TREND", intents) THEN "Trend"
    ELSE IF InSeq("RANK", intents) THEN "Rank"
    ELSE IF InSeq("COMPARE", intents) THEN "Compare"
    ELSE IF InSeq("AMOUNT", intents) \/ InSeq("VOLUME", intents) \/ InSeq("COUNT", intents)
    THEN "Amount"
    ELSE IF AnyEntity(entities, {"categories", "states", "banks", "devices", "networks",
                                 "tx_types", "ages"})
    THEN "EntityDeepDive"
    ELSE "Overview"

generate(k, intents, entities, raw_query) ==
    LET h == Dispatch(intents, entities)
    IN  CASE h = "Overview"       -> _overview(k)
          [] h = "Fraud"          -> _fraud_report(k, entities)
          [] h = "Failure"        -> _failure_report(k, entities)
          [] h = "Trend"          -> _trend_report(k, entities, raw_query)
          [] h = "Rank"           -> _rank_report(k, entities, raw_query)
          [] h = "Compare"        -> _compare_report(k, entities, raw_query)
          [] h = "Amount"         -> _amount_report(k, entities, raw_query)
          [] h = "EntityDeepDive" -> _entity_deep_dive(k, entities)

-----------------------------------------------------------------------------
(* InsightXModel                                                           *)

\* most query() calls on one model object
MaxCalls == 3

\* most intents in the list handed to generate directly
MaxIntents == 2

\* most entity lists that are not empty in a direct generate call
MaxEntityLists == 2

\* the questions of a session: SAMPLE_QUERIES 2, 3, 4 and 15, and the
\* ranking of networks by volume
SessionQuestions == {
    "Which state has the highest fraud rate?",
    "What is the average transaction amount for Shopping?",
    "Compare Android vs iOS vs Web",
    "Rank states by transaction volume",
    "Rank networks by volume" }

\* the locals of query(question) when it ends: by return, or by the
\* exception generate raised (response.error)
QueryLocals(k, q) ==
    LET intents  == classify_intent(q)
        entities == extract_entities(q)
    IN  [question |-> q, intents |-> intents, entities |-> entities,
         handler  |-> Dispatch(intents, entities),
         response |-> generate(k, intents, entities, q)]

\* query that also counts the question in the meta of the knowledge base
query_CountsInKb(q) ==
    LET l == QueryLocals(kb, q)
    IN  /\ calls' = Append(calls, l)
        /\ history' = IF l.response.error = ""
                      THEN Append(history, [question |-> q, intents |-> l.intents,
                                            response |-> l.response])
                      ELSE history
        /\ kb' = [kb EXCEPT !.meta.rows = @ + 1]
        /\ UNCHANGED <<gen_in, gen_out, df, df_filename, system_prompt,
                       dashboard_cache, upload, prev, seen,
                       rank_in, rank_out, records, train_error,
                       fmt_in, fmt_out, sessions, msg_lists, chats>>

\* InsightXModel.query: the history is appended to only when generate
\* returned
query(q) ==
    LET l == QueryLocals(kb, q)
    IN  /\ calls' = Append(calls, l)
        /\ history' = IF l.response.error = ""
                      THEN Append(history, [question |-> q, intents |-> l.intents,
                                            response |-> l.response])
                      ELSE history
        /\ UNCHANGED <<kb, gen_in, gen_out, df, df_filename, system_prompt,
                       dashboard_cache, upload, prev, seen,
                       rank_in, rank_out, records, train_error,
                       fmt_in, fmt_out, sessions, msg_lists, chats>>

-----------------------------------------------------------------------------
(* Main.py: the dataset state of the HTTP service                          *)
(*                                                                         *)
(* Each upload is a generation 1, 2, ...; a global holds the generation    *)
(* of the upload that set it, 0 for its value at start-up. upload_csv is   *)
(* a coroutine on the event loop; health, get_dashboard and chat are       *)
(* plain functions, which the server runs on worker threads, so they run   *)
(* between any two statements of upload_csv.                               *)

\* most uploads
MaxUploads == 2

\* most chat and overview requests
MaxRequests == 2

\* the session ids requests carry; get_overview makes its own
SessionIds == {"s1", "s2"}

\* the session id uuid4 gives the overview request r
OverviewSid(r) == "uuid" \o StrOf(r)

AllSids == SessionIds \cup {OverviewSid(r) : r \in 1..MaxRequests}

\* a request that has not arrived
NoChat == [pc |-> "idle", op |-> "", sid |-> "", history |-> 0]

\* sessions = {} and no request; sessions[sid] is 0 for a session id that
\* is no key, and the identity of its list object otherwise
ChatInit ==
    /\ sessions = [sid \in AllSids |-> 0]
    /\ msg_lists = <<>>
    /\ chats = [r \in 1..MaxRequests |-> NoChat]

ApiInit ==
    /\ df = 0 /\ df_filename = 0 /\ system_prompt = 0 /\ dashboard_cache = 0
    /\ upload = [pc |-> "idle", gen |-> 0, csv_name |-> TRUE, parses |-> TRUE,
                 dashboard_raises |-> FALSE]
    /\ prev = <<0, 0, 0, 0>>
    /\ seen = [op |-> "none", a |-> 0, b |-> 0]
    /\ ChatInit

ModelVars == <<kb, history, question, calls, gen_in, gen_out,
               rank_in, rank_out, records, train_error, fmt_in, fmt_out>>

ChatVars == <<sessions, msg_lists, chats>>

\* POST /api/upload-csv arrives: the file it carries
UploadBegin(csv_name, parses, dashboard_raises) ==
    /\ upload.pc = "idle"
    /\ upload.gen < MaxUploads
    /\ upload' = [pc |-> "begin", gen |-> upload.gen + 1, csv_name |-> csv_name,
                  parses |-> parses, dashboard_raises |-> dashboard_raises]
    /\ prev' = <<df, df_filename, system_prompt, dashboard_cache>>
    /\ UNCHANGED <<df, df_filename, system_prompt, dashboard_cache, seen>>
    /\ UNCHANGED ModelVars
    /\ UNCHANGED ChatVars

\* the file name check and pd.read_csv: HTTP 400 unless both succeed
UploadParse ==
    /\ upload.pc = "begin"
    /\ upload' = [upload EXCEPT !.pc = IF upload.csv_name /\ upload.parses
                                       THEN "parsed" ELSE "failed"]
    /\ UNCHANGED <<df, df_filename, system_prompt, dashboard_cache, prev, seen>>
    /\ UNCHANGED ModelVars
    /\ UNCHANGED ChatVars

\* _df = df
UploadSetDf ==
    /\ upload.pc = "parsed"
    /\ df' = upload.gen
    /\ upload' = [upload EXCEPT !.pc = "df"]
    /\ UNCHANGED <<df_filename, system_prompt, dashboard_cache, prev, seen>>
    /\ UNCHANGED ModelVars
    /\ UNCHANGED ChatVars

\* _df_filename = file.filename
UploadSetFilename ==
    /\ upload.pc = "df"
    /\ df_filename' = upload.gen
    /\ upload' = [upload EXCEPT !.pc = "filename"]
    /\ UNCHANGED <<df, system_prompt, dashboard_cache, prev, seen>>
    /\ UNCHANGED ModelVars
    /\ UNCHANGED ChatVars

\* _system_prompt = build_system_prompt_for_csv(df, file.filename)
UploadSetPrompt ==
    /\ upload.pc = "filename"
    /\ system_prompt' = upload.gen
    /\ upload' = [upload EXCEPT !.pc = "prompt"]
    /\ UNCHANGED <<df, df_filename, dashboard_cache, prev, seen>>
    /\ UNCHANGED ModelVars
    /\ UNCHANGED ChatVars

\* _dashboard_cache = compute_dashboard(df, file.filename); compute_dashboard
\* raises when the mean of the fraud column cannot be taken
UploadSetDashboard ==
    /\ upload.pc = "prompt"
    /\ IF upload.dashboard_raises
       THEN /\ upload' = [upload EXCEPT !.pc = "failed"]
            /\ UNCHANGED dashboard_cache
       ELSE /\ dashboard_cache' = upload.gen
            /\ upload' = [upload EXCEPT !.pc = "done"]
    /\ UNCHANGED <<df, df_filename, system_prompt, prev, seen>>
    /\ UNCHANGED ModelVars
    /\ UNCHANGED ChatVars

\* the response (or the error) is sent
UploadEnd ==
    /\ upload.pc \in {"done", "failed"}
    /\ upload' = [upload EXCEPT !.pc = "idle"]
    /\ UNCHANGED <<df, df_filename, system_prompt, dashboard_cache, prev, seen>>
    /\ UNCHANGED ModelVars
    /\ UNCHANGED ChatVars

\* what health returns when _df and _df_filename are of generations d and f:
\* a = csv_loaded, b = csv_filename (-1 for None)
HealthResponse(d, f) ==
    [op |-> "health", a |-> IF d # 0 THEN 1 ELSE 0, b |-> IF d # 0 THEN f ELSE -1]

\* what get_dashboard returns: a = csv_loaded, b = the cache it spreads
DashboardResponse(d, c) ==
    IF d = 0 \/ c = 0 THEN [op |-> "dashboard", a |-> 0, b |-> 0]
    ELSE [op |-> "dashboard", a |-> 1, b |-> c]

\* what chat sends to the AI: a = the data frame of the live statistics
\* (0: none appended), b = the system prompt (0: the static one)
ChatMessages(d, p) == [op |-> "chat", a |-> d, b |-> p]

Health ==
    /\ seen' = HealthResponse(df, df_filename)
    /\ UNCHANGED <<df, df_filename, system_prompt, dashboard_cache, upload, prev>>
    /\ UNCHANGED ModelVars
    /\ UNCHANGED ChatVars

GetDashboard ==
    /\ seen' = DashboardResponse(df, dashboard_cache)
    /\ UNCHANGED <<df, df_filename, system_prompt, dashboard_cache, upload, prev>>
    /\ UNCHANGED ModelVars
    /\ UNCHANGED ChatVars

Chat ==
    /\ seen' = ChatMessages(df, system_prompt)
    /\ UNCHANGED <<df, df_filename, system_prompt, dashboard_cache, upload, prev>>
    /\ UNCHANGED ModelVars
    /\ UNCHANGED ChatVars

-----------------------------------------------------------------------------
(* Specifications                                                          *)

\* InsightXModel(): the embedded knowledge base, no history
ModelInit ==
    /\ kb = KNOWLEDGE_BASE
    /\ history = <<>>
    /\ calls = <<>>

\* the intents of the catalog whose index is in S, in catalog order
RECURSIVE IntentsIn(_, _)
IntentsIn(S, k) ==
    IF k > Len(INTENT_PATTERNS) THEN <<>>
    ELSE (IF k \in S THEN <<INTENT_PATTERNS[k].intent>> ELSE <<>>) \o IntentsIn(S, k + 1)

IntentLists ==
    { IntentsIn(S, 1) : S \in {T \in SUBSET (1..Len(INTENT_PATTERNS)) :
                                  Cardinality(T) <= MaxIntents} }

\* the entity lists, each with the value it holds when it is not empty
ENTITY_LISTS == <<
    [list |-> "categories", value |-> "Shopping"], [list |-> "states", value |-> "Delhi"],
    [list |-> "banks", value |-> "HDFC"],          [list |-> "devices", value |-> "iOS"],
    [list |-> "networks", value |-> "WiFi"],       [list |-> "tx_types", value |-> "P2P"],
    [list |-> "ages", value |-> "56+"],            [list |-> "months", value |-> "January"],
    [list |-> "days", value |-> "Monday"],         [list |-> "hours", value |-> "15"] >>

\* the entity set whose lists of index in S hold their value
EntitiesWith(S) ==
    [l \in {"categories", "states", "banks", "devices", "networks", "tx_types", "ages",
            "months", "days", "hours", "metric"} |->
        IF l = "metric" THEN ""
        ELSE IF \E i \in S : ENTITY_LISTS[i].list = l
             THEN <<ENTITY_LISTS[CHOOSE i \in S : ENTITY_LISTS[i].list = l].value>>
             ELSE <<>>]

EntitySets ==
    { EntitiesWith(S) : S \in {T \in SUBSET (1..Len(ENTITY_LISTS)) :
                                  Cardinality(T) <= MaxEntityLists} }

NoGenerateIn == [intents |-> <<>>, entities |-> EntitiesWith({}), raw_query |-> ""]
NoGenerate == [handler |-> "", response |-> Raised("")]

\* no direct _rank_by call and no training
NoRankIn == [dimension_key |-> "", metric |-> "", top_n |-> 0, reverse |-> TRUE]
NoRank == [done |-> FALSE, ranked |-> <<>>]
NoFmtIn == [val |-> 0, scale |-> 1]
NoTraining ==
    /\ rank_in = NoRankIn
    /\ rank_out = NoRank
    /\ records = <<>>
    /\ train_error = ""
    /\ fmt_in = NoFmtIn
    /\ fmt_out = ""

(* A session: questions asked one after the other of one model object.     *)
Ask(q) ==
    /\ Len(calls) < MaxCalls
    /\ question' = q
    /\ query(q)

Init ==
    /\ ModelInit
    /\ question = ""
    /\ gen_in = NoGenerateIn
    /\ gen_out = NoGenerate
    /\ ApiInit
    /\ NoTraining

Next == \E q \in SessionQuestions : Ask(q)

Spec == Init /\ [][Next]_vars

(* One question, any of Questions, asked of a fresh model object.          *)
InitQuery ==
    /\ ModelInit
    /\ question \in Questions
    /\ gen_in = NoGenerateIn
    /\ gen_out = NoGenerate
    /\ ApiInit
    /\ NoTraining

AskOnce ==
    /\ calls = <<>>
    /\ question' = question
    /\ query(question)

NextQuery == AskOnce

SpecQuery == InitQuery /\ [][NextQuery]_vars

(* generate called directly, on any short list of intents in catalog order *)
(* and any entity set with few lists that are not empty.                   *)
InitGenerate ==
    /\ ModelInit
    /\ question = ""
    /\ gen_in \in [intents : IntentLists, entities : EntitySets,
                   raw_query : {"", "Rank states by volume"}]
    /\ gen_out = NoGenerate
    /\ ApiInit
    /\ NoTraining

Generate ==
    /\ gen_out = NoGenerate
    /\ gen_out' = [handler  |-> Dispatch(gen_in.intents, gen_in.entities),
                   response |-> generate(kb, gen_in.intents, gen_in.entities,
                                         gen_in.raw_query)]
    /\ UNCHANGED <<kb, history, question, calls, gen_in, df, df_filename, system_prompt,
                   dashboard_cache, upload, prev, seen,
                   rank_in, rank_out, records, train_error,
                       fmt_in, fmt_out, sessions, msg_lists, chats>>

NextGenerate == Generate

SpecGenerate == InitGenerate /\ [][NextGenerate]_vars

(* The HTTP service: uploads, and the requests that read the dataset       *)
(* state while an upload runs.                                             *)
NextApi ==
    \/ \E csv_name, parses, dashboard_raises \in BOOLEAN :
          UploadBegin(csv_name, parses, dashboard_raises)
    \/ UploadParse
    \/ UploadSetDf
    \/ UploadSetFilename
    \/ UploadSetPrompt
    \/ UploadSetDashboard
    \/ UploadEnd
    \/ Health
    \/ GetDashboard
    \/ Chat

SpecApi == Init /\ [][NextApi]_vars

(* Knowledge bases other than the embedded one: ResponseGenerator(kb) and  *)
(* InsightXModel(csv_path) work on whatever mapping they are given or      *)
(* train. A variant is the embedded knowledge base with one of its parts   *)
(* replaced.                                                               *)

\* most states in a by_state mapping that is not the embedded one
MaxStates == 2

\* the states of such a mapping and their fraud rates (equal rates occur)
StateEntries ==
    { [key |-> n, val |-> [Get(KNOWLEDGE_BASE.by_state, n) EXCEPT !.fraud_rate_pct = r]] :
        n \in {"Delhi", "Karnataka", "Maharashtra"}, r \in {150, 232} }

\* by_state mappings: the embedded one, and every short one without a
\* repeated key, in every insertion order
StateMappings ==
    {KNOWLEDGE_BASE.by_state} \cup
    { m \in UNION { [1..n -> StateEntries] : n \in 1..MaxStates } :
        \A i, j \in 1..Len(m) : i # j => m[i].key # m[j].key }

\* most items asked of _rank_by
MaxTopN == 2

(* _rank_by called directly on a knowledge base whose by_state varies.     *)
InitRank ==
    /\ kb \in { [KNOWLEDGE_BASE EXCEPT !.by_state = m] : m \in StateMappings }
    /\ history = <<>>
    /\ calls = <<>>
    /\ question = ""
    /\ gen_in = NoGenerateIn
    /\ gen_out = NoGenerate
    /\ ApiInit
    /\ rank_in \in [dimension_key : {"by_state", "by_network", "by_city"},
                    metric : {"fraud_rate_pct", "total_volume"},
                    top_n : 0..MaxTopN, reverse : BOOLEAN]
    /\ rank_out = NoRank
    /\ records = <<>>
    /\ train_error = ""
    /\ fmt_in = NoFmtIn
    /\ fmt_out = ""

RankBy ==
    /\ ~rank_out.done
    /\ rank_out' = [done |-> TRUE,
                    ranked |-> _rank_by(kb, rank_in.dimension_key, rank_in.metric,
                                        rank_in.top_n, rank_in.reverse)]
    /\ UNCHANGED <<kb, history, question, calls, gen_in, gen_out, df, df_filename,
                   system_prompt, dashboard_cache, upload, prev, seen,
                   rank_in, records, train_error,
                       fmt_in, fmt_out, sessions, msg_lists, chats>>

NextRank == RankBy

SpecRank == InitRank /\ [][NextRank]_vars

\* a mapping without one of its keys
Without(dim, name) == SelectSeq(dim, LAMBDA e : e.key # name)

\* a mapping with one field of one of its records set to a value
WithField(dim, name, field, value) ==
    [i \in 1..Len(dim) |->
        IF dim[i].key = name
        THEN [key |-> name, val |-> [dim[i].val EXCEPT ![field] = value]]
        ELSE dim[i]]

\* by_category mappings: the embedded one, one trained from data without
\* Shopping rows, one trained from data whose smallest Shopping amount is
\* below one rupee (int() of it is 0)
CategoryMappings ==
    { KNOWLEDGE_BASE.by_category,
      Without(KNOWLEDGE_BASE.by_category, "Shopping"),
      WithField(KNOWLEDGE_BASE.by_category, "Shopping", "min", 0) }

\* the knowledge bases a generator works on; an overall fraud rate of 0 is
\* what round(..., 3) gives for one fraud in more than 200,000 rows
\* also one whose March has a larger fraud rate than its July
KbVariants ==
    { [KNOWLEDGE_BASE EXCEPT !.by_state = m, !.by_category = c, !.fraud_rate_pct = f] :
        m \in StateMappings, c \in CategoryMappings,
        f \in {KNOWLEDGE_BASE.fraud_rate_pct, 0} }
    \cup { [KNOWLEDGE_BASE EXCEPT
              !.by_month = WithField(KNOWLEDGE_BASE.by_month, "March",
                                     "fraud_rate_pct", 300)] }

\* the questions asked of them
KbQuestions == {
    "Which state has the highest fraud rate?",
    "Rank states by lowest fraud rate",
    "Rank states by transaction volume",
    "Rank states by lowest volume",
    "What is the average transaction amount for Shopping?",
    "minimum amount for Shopping",
    "fraud in Shopping",
    "failure Shopping",
    "failure rate on Android",
    "monthly trend",
    "What are the peak transaction hours?",
    "trend by day of week",
    "Shopping",
    "Show me fraud analysis" }

(* One question asked of a model object whose knowledge base is any of     *)
(* KbVariants.                                                             *)
InitKb ==
    /\ kb \in KbVariants
    /\ history = <<>>
    /\ calls = <<>>
    /\ question \in KbQuestions
    /\ gen_in = NoGenerateIn
    /\ gen_out = NoGenerate
    /\ ApiInit
    /\ NoTraining

NextKb == AskOnce

SpecKb == InitKb /\ [][NextKb]_vars

-----------------------------------------------------------------------------
(* InsightXModel(csv_path): the knowledge base computed from a CSV file.   *)
(* The rows of the file are groups of equal rows; of a row the model keeps *)
(* the columns merchant_category, sender_state and fraud_flag, and of the  *)
(* knowledge base the counts and fraud figures computed from them.         *)

\* the empty cell of the fraud_flag column, which read_csv turns into NaN
\* (the empty cell of a text column is "")
NAN == -1

\* most groups of equal rows in a file
MaxRows == 2

\* a group of n equal rows
RowGroups ==
    [n : {1, 10, 990}, merchant_category : {"Food", "Shopping"},
     sender_state : {"Delhi", "Karnataka", ""}, fraud_flag : {0, 1, NAN}]

\* the files
RecordSets == UNION { [1..l -> RowGroups] : l \in 1..MaxRows }

\* len(df) of the rows
RECURSIVE CountRows(_)
CountRows(rows) == IF rows = <<>> THEN 0 ELSE Head(rows).n + CountRows(Tail(rows))

\* df['fraud_flag'].sum(): NaN is skipped
FraudSum(rows) == CountRows(SelectSeq(rows, LAMBDA r : r.fraud_flag = 1))

\* round(float(df['fraud_flag'].mean() * 100), 3) in thousandths: the mean
\* is taken over the cells that are not NaN, and is NaN when there is none
FraudRatePct(rows) ==
    LET flagged == SelectSeq(rows, LAMBDA r : r.fraud_flag # NAN)
    IN  IF flagged = <<>> THEN NAN
        ELSE RoundDiv(FraudSum(rows) * 100000, CountRows(flagged))

\* the values of the text columns, in the order groupby sorts them
GROUP_KEYS == [merchant_category |-> <<"Food", "Shopping">>,
               sender_state      |-> <<"Delhi", "Karnataka">>]

\* build_dim(group_col): groupby leaves out the rows whose cell is NaN
build_dim(rows, group_col) ==
    LET names == SelectSeq(GROUP_KEYS[group_col],
                           LAMBDA v : \E i \in 1..Len(rows) : rows[i][group_col] = v)
    IN  [i \in 1..Len(names) |->
            LET g == SelectSeq(rows, LAMBDA r : r[group_col] = names[i])
            IN  [key |-> names[i],
                 val |-> [count          |-> CountRows(g),
                          fraud_count    |-> FraudSum(g),
                          fraud_rate_pct |-> FraudRatePct(g)]]]

\* the exception _train_from_csv raises, "" when it returns: without a
\* fraud row int(fdf['amount (INR)'].max()) is int(NaN), and without a
\* fraud row that has a state value_counts().idxmax() has nothing to pick
TrainError(rows) ==
    LET fdf == SelectSeq(rows, LAMBDA r : r.fraud_flag = 1)
    IN  IF fdf = <<>> THEN "ValueError"
        ELSE IF \A i \in 1..Len(fdf) : fdf[i].sender_state = "" THEN "ValueError"
        ELSE ""

_train_from_csv(rows) ==
    [total_transactions |-> CountRows(rows),
     fraud_total        |-> FraudSum(rows),
     fraud_rate_pct     |-> FraudRatePct(rows),
     by_category        |-> build_dim(rows, "merchant_category"),
     by_state           |-> build_dim(rows, "sender_state")]

(* A session holds a model object with the embedded knowledge base and     *)
(* builds a new one from a file; when the constructor raises, the session  *)
(* keeps the object it had.                                                *)
InitTrain ==
    /\ kb = KNOWLEDGE_BASE
    /\ history = <<>>
    /\ calls = <<>>
    /\ question = ""
    /\ gen_in = NoGenerateIn
    /\ gen_out = NoGenerate
    /\ ApiInit
    /\ rank_in = NoRankIn
    /\ rank_out = NoRank
    /\ records \in RecordSets
    /\ train_error = ""
    /\ fmt_in = NoFmtIn
    /\ fmt_out = ""

\* InsightXModel(csv_path)
Train ==
    /\ kb = KNOWLEDGE_BASE
    /\ train_error = ""
    /\ IF TrainError(records) # ""
       THEN /\ train_error' = TrainError(records)
            /\ kb' = kb
       ELSE /\ kb' = _train_from_csv(records)
            /\ train_error' = ""
    /\ UNCHANGED <<history, calls, question, gen_in, gen_out, df, df_filename,
                   system_prompt, dashboard_cache, upload, prev, seen,
                   rank_in, rank_out, records, fmt_in, fmt_out, sessions, msg_lists, chats>>

NextTrain == Train

SpecTrain == InitTrain /\ [][NextTrain]_vars

-----------------------------------------------------------------------------
(* Ranking and comparison questions, asked of the embedded knowledge base  *)
(* and of one with one more value in each dimension.                       *)

\* a mapping with one more key, whose record is that of the first key
WithExtra(dim, name) == Append(dim, [key |-> name, val |-> dim[1].val])

\* a knowledge base trained from data with a value outside the vocabulary
\* in each of its columns
GrownKb ==
    [KNOWLEDGE_BASE EXCEPT
        !.by_state    = WithExtra(@, "Kerala"),
        !.by_category = WithExtra(@, "Travel"),
        !.by_bank     = WithExtra(@, "Canara"),
        !.by_device   = WithExtra(@, "Tablet"),
        !.by_network  = WithExtra(@, "2G"),
        !.by_age      = WithExtra(@, "Under 18"),
        !.by_tx_type  = WithExtra(@, "Refund")]

ReportQuestions ==
    { "Rank " \o x \o " by " \o y :
        x \in {"states", "categories", "merchants", "banks", "devices", "networks",
               "age groups", "transaction types", "users"},
        y \in {"volume", "count", "average amount"} }
    \cup
    { "Rank banks by state volume", "Rank devices per category by count",
      "Rank network types by count", "Rank age groups on web by count",
      "Rank types of bank by volume", "Rank senior bill payments by count",
      "top regions by volume", "Rank p2p by count", "Rank 5g by count",
      "Which city has the most transactions", "Rank youth by merchant volume",
      "Rank recharge by group count",
      "Compare Android vs iOS", "Compare Android vs iOS vs Web",
      "Compare P2P vs P2M transaction patterns", "Compare 4G and 5G",
      "Compare wifi and web", "Compare bill payment and recharge",
      "Compare network types", "Compare banks", "Compare states by volume",
      "Compare categories", "Compare HDFC vs SBI", "Compare devices",
      "Compare payment on 3g", "Compare Delhi versus Gujarat", "Compare users" }

InitReports ==
    /\ kb \in {KNOWLEDGE_BASE, GrownKb}
    /\ history = <<>>
    /\ calls = <<>>
    /\ question \in ReportQuestions
    /\ gen_in = NoGenerateIn
    /\ gen_out = NoGenerate
    /\ ApiInit
    /\ NoTraining

NextReports == AskOnce

SpecReports == InitReports /\ [][NextReports]_vars

-----------------------------------------------------------------------------
(* _fmt_inr called directly on an amount.                                  *)

\* the amounts: the thresholds and their neighbours, one to nine of every
\* power of ten, and amounts of the embedded knowledge base; with scale 100
\* the amount is val / 100
FmtAmounts ==
    {0, 42, 999, 1000, 1001, 2500, 2573, 99949, 99950, 99999, 100000, 100001,
     150000, 9999999, 10000000, 10000001, 327939009}
        \cup { d * Pow10(e) : d \in 1..9, e \in 0..8 }

FmtInputs ==
    { [val |-> v, scale |-> 1] : v \in FmtAmounts }
        \cup { [val |-> v, scale |-> 100] :
                 v \in {99949, 99950, 99951, 257309, 131176, 9999949, 9999950,
                        999999949, 999999950} }

InitFmt ==
    /\ ModelInit
    /\ question = ""
    /\ gen_in = NoGenerateIn
    /\ gen_out = NoGenerate
    /\ ApiInit
    /\ rank_in = NoRankIn
    /\ rank_out = NoRank
    /\ records = <<>>
    /\ train_error = ""
    /\ fmt_in \in FmtInputs
    /\ fmt_out = ""

FmtInr ==
    /\ fmt_out = ""
    /\ fmt_out' = _fmt_inr(fmt_in.val, fmt_in.scale)
    /\ UNCHANGED <<kb, history, question, calls, gen_in, gen_out, df, df_filename,
                   system_prompt, dashboard_cache, upload, prev, seen,
                   rank_in, rank_out, records, train_error, fmt_in,
                   sessions, msg_lists, chats>>

NextFmt == FmtInr

SpecFmt == InitFmt /\ [][NextFmt]_vars

-----------------------------------------------------------------------------
(* The chat sessions of the HTTP service.  chat is a plain def, which the  *)
(* server runs in a thread pool: each statement of it that reads or writes *)
(* the sessions dict or a history list is a step, and steps of different   *)
(* requests interleave.                                                    *)

DatasetVars == <<df, df_filename, system_prompt, dashboard_cache, upload, prev, seen>>

\* no request is between its arrival and its return
Quiet == \A r \in 1..MaxRequests : chats[r].pc \in {"idle", "done", "failed"}

\* POST /api/chat arrives, with a session id of the client or with none:
\* sid = req.session_id or str(uuid.uuid4()).  Requests take the request
\* slots in their order of arrival; a history message is its role and the
\* request it is of.
ChatBegin(r, sid) ==
    /\ chats[r].pc = "idle"
    /\ r > 1 => chats[r - 1].pc # "idle"
    /\ sid \in SessionIds \cup {OverviewSid(r)}
    /\ chats' = [chats EXCEPT ![r] = [pc |-> "check", op |-> "chat", sid |-> sid,
                                      history |-> 0]]
    /\ UNCHANGED <<sessions, msg_lists, ModelVars, DatasetVars>>

\* GET /api/overview arrives: sessions[sid] = [] under a new uuid, then
\* chat(req) with that id
OverviewBegin(r) ==
    /\ chats[r].pc = "idle"
    /\ r > 1 => chats[r - 1].pc # "idle"
    /\ msg_lists' = Append(msg_lists, <<>>)
    /\ sessions' = [sessions EXCEPT ![OverviewSid(r)] = Len(msg_lists) + 1]
    /\ chats' = [chats EXCEPT ![r] = [pc |-> "check", op |-> "overview",
                                      sid |-> OverviewSid(r), history |-> 0]]
    /\ UNCHANGED <<ModelVars, DatasetVars>>

\* if sid not in sessions:
ChatCheck(r) ==
    /\ chats[r].pc = "check"
    /\ chats' = [chats EXCEPT ![r].pc =
                    IF sessions[chats[r].sid] = 0 THEN "create" ELSE "read"]
    /\ UNCHANGED <<sessions, msg_lists, ModelVars, DatasetVars>>

\* sessions[sid] = []
ChatCreate(r) ==
    /\ chats[r].pc = "create"
    /\ msg_lists' = Append(msg_lists, <<>>)
    /\ sessions' = [sessions EXCEPT ![chats[r].sid] = Len(msg_lists) + 1]
    /\ chats' = [chats EXCEPT ![r].pc = "read"]
    /\ UNCHANGED <<ModelVars, DatasetVars>>

\* history = sessions[sid], a KeyError when the key has been popped since
\* the check
ChatRead(r) ==
    /\ chats[r].pc = "read"
    /\ chats' = [chats EXCEPT ![r] =
                    IF sessions[chats[r].sid] = 0
                    THEN [@ EXCEPT !.pc = "failed"]
                    ELSE [@ EXCEPT !.pc = "append_user",
                                   !.history = sessions[chats[r].sid]]]
    /\ UNCHANGED <<sessions, msg_lists, ModelVars, DatasetVars>>

\* history.append({"role": "user", "content": user_content})
ChatAppendUser(r) ==
    /\ chats[r].pc = "append_user"
    /\ msg_lists' = [msg_lists EXCEPT ![chats[r].history] =
                        Append(@, [role |-> "user", req |-> r])]
    /\ chats' = [chats EXCEPT ![r].pc = "call_ai"]
    /\ UNCHANGED <<sessions, ModelVars, DatasetVars>>

\* reply = call_ai(messages) returns the completion
ChatReply(r) ==
    /\ chats[r].pc = "call_ai"
    /\ chats' = [chats EXCEPT ![r].pc = "append_assistant"]
    /\ UNCHANGED <<sessions, msg_lists, ModelVars, DatasetVars>>

\* call_ai raises HTTPException: 500 of get_ai_client without an API key,
\* 502 for any exception of the completion request; chat does not catch it
ChatFail(r) ==
    /\ chats[r].pc = "call_ai"
    /\ chats' = [chats EXCEPT ![r].pc = "failed"]
    /\ UNCHANGED <<sessions, msg_lists, ModelVars, DatasetVars>>

\* history.append({"role": "assistant", "content": reply})
ChatAppendAssistant(r) ==
    /\ chats[r].pc = "append_assistant"
    /\ msg_lists' = [msg_lists EXCEPT ![chats[r].history] =
                        Append(@, [role |-> "assistant", req |-> r])]
    /\ chats' = [chats EXCEPT ![r].pc = "store"]
    /\ UNCHANGED <<sessions, ModelVars, DatasetVars>>

\* sessions[sid] = history, and the response
ChatStore(r) ==
    /\ chats[r].pc = "store"
    /\ sessions' = [sessions EXCEPT ![chats[r].sid] = chats[r].history]
    /\ chats' = [chats EXCEPT ![r].pc = "done"]
    /\ UNCHANGED <<msg_lists, ModelVars, DatasetVars>>

\* DELETE /api/session/{session_id}, for an id of the client or one that
\* an earlier response gave it
ClearSession(r, sid) ==
    /\ chats[r].pc = "idle"
    /\ r > 1 => chats[r - 1].pc # "idle"
    /\ \/ sid \in SessionIds
       \/ \E o \in 1..MaxRequests : chats[o].pc = "done" /\ chats[o].sid = sid
    /\ sessions' = [sessions EXCEPT ![sid] = 0]
    /\ chats' = [chats EXCEPT ![r] = [pc |-> "done", op |-> "clear", sid |-> sid,
                                      history |-> 0]]
    /\ UNCHANGED <<msg_lists, ModelVars, DatasetVars>>

\* requests served by the threads of the pool, their steps interleaved
NextChat ==
    \/ \E r \in 1..MaxRequests, sid \in AllSids : ChatBegin(r, sid)
    \/ \E r \in 1..MaxRequests : OverviewBegin(r)
    \/ \E r \in 1..MaxRequests, sid \in AllSids : ClearSession(r, sid)
    \/ \E r \in 1..MaxRequests : ChatCheck(r)
    \/ \E r \in 1..MaxRequests : ChatCreate(r)
    \/ \E r \in 1..MaxRequests : ChatRead(r)
    \/ \E r \in 1..MaxRequests : ChatAppendUser(r)
    \/ \E r \in 1..MaxRequests : ChatReply(r)
    \/ \E r \in 1..MaxRequests : ChatFail(r)
    \/ \E r \in 1..MaxRequests : ChatAppendAssistant(r)
    \/ \E r \in 1..MaxRequests : ChatStore(r)

SpecChat == Init /\ [][NextChat]_vars

\* requests served one after the other: a request arrives when no other is
\* under way
NextChatSeq ==
    \/ Quiet /\ \E r \in 1..MaxRequests, sid \in AllSids : ChatBegin(r, sid)
    \/ Quiet /\ \E r \in 1..MaxRequests : OverviewBegin(r)
    \/ Quiet /\ \E r \in 1..MaxRequests, sid \in AllSids : ClearSession(r, sid)
    \/ \E r \in 1..MaxRequests : ChatCheck(r)
    \/ \E r \in 1..MaxRequests : ChatCreate(r)
    \/ \E r \in 1..MaxRequests : ChatRead(r)
    \/ \E r \in 1..MaxRequests : ChatAppendUser(r)
    \/ \E r \in 1..MaxRequests : ChatReply(r)
    \/ \E r \in 1..MaxRequests : ChatFail(r)
    \/ \E r \in 1..MaxRequests : ChatAppendAssistant(r)
    \/ \E r \in 1..MaxRequests : ChatStore(r)

SpecChatSeq == Init /\ [][NextChatSeq]_vars

-----------------------------------------------------------------------------
(* Properties                                                              *)

\* the handler of the first rule that holds, for rules in priority order
FirstHolding(rules) ==
    rules[CHOOSE i \in 1..Len(rules) :
              rules[i].holds /\ \A j \in 1..(i - 1) : ~rules[j].holds].handler

\* the dispatch rules of the specification, in their fixed order:
\* `mentioned` is "a dimension entity is mentioned", `present` is "an entity
\* is present"
DispatchRules(intents, mentioned, present) ==
    LET has(x) == InSeq(x, intents)
    IN  << [holds |-> has("OVERVIEW") /\ ~mentioned, handler |-> "Overview"],
           [holds |-> has("FRAUD"),                  handler |-> "Fraud"],
           [holds |-> has("FAILURE"),                handler |-> "Failure"],
           [holds |-> has("TREND"),                  handler |-> "Trend"],
           [holds |-> has("RANK"),                   handler |-> "Rank"],
           [holds |-> has("COMPARE"),                handler |-> "Compare"],
           [holds |-> has("AMOUNT") \/ has("VOLUME") \/ has("COUNT"),
                                                     handler |-> "Amount"],
           [holds |-> present,                       handler |-> "EntityDeepDive"],
           [holds |-> TRUE,                          handler |-> "Overview"] >>

NonTimeLists == {"categories", "states", "banks", "devices", "networks", "tx_types", "ages"}

\* C1 as stated: generate selects the first handler whose condition holds
\* in the fixed order, where a dimension entity is mentioned when one of
\* the lists categories .. days is not empty, and an entity is present as
\* soon as any entity list (months, days and hours included) is not empty.
C1_DispatchAnyEntity ==
    gen_out # NoGenerate =>
        LET mentioned == \E l \in NonTimeLists \cup {"months", "days"} :
                             gen_in.entities[l] # <<>>
            present   == \E l \in NonTimeLists \cup {"months", "days", "hours"} :
                             gen_in.entities[l] # <<>>
        IN  gen_out.handler = FirstHolding(DispatchRules(gen_in.intents, mentioned, present))

\* C1 amended: generate selects the first handler whose condition holds in
\* the fixed order, where the Overview rule counts an entity as mentioned
\* when any list but hours is not empty, and the EntityDeepDive rule counts
\* an entity as present only when one of categories, states, banks,
\* devices, networks, tx_types, ages is not empty.
C1_DispatchPriority ==
    gen_out # NoGenerate =>
        LET mentioned == \E l \in NonTimeLists \cup {"months", "days"} :
                             gen_in.entities[l] # <<>>
            present   == \E l \in NonTimeLists : gen_in.entities[l] # <<>>
        IN  gen_out.handler = FirstHolding(DispatchRules(gen_in.intents, mentioned, present))

\* a generate call that names only a month and has no intent of the
\* chain: it ends in the final Overview, not in EntityDeepDive
C1_Witness ==
    /\ gen_out # NoGenerate
    /\ gen_in.intents = <<"ANOMALY">>
    /\ gen_in.entities.months # <<>>
    /\ gen_in.entities.categories = <<>>
    /\ gen_out.handler = "Overview"
    /\ gen_out.response.intent = "OVERVIEW"

\* what a read request returns when all four globals are of generation g
ReadAt(op, g) ==
    CASE op = "health"    -> HealthResponse(g, g)
      [] op = "dashboard" -> DashboardResponse(g, g)
      [] op = "chat"      -> ChatMessages(g, g)

\* C2: every read request (health, dashboard, chat) observes the dataset
\* state of one generation only, the old one or the new one, also while an
\* upload runs.
C2_AtomicInstall ==
    seen.op # "none" => \E g \in 0..MaxUploads : seen = ReadAt(seen.op, g)

\* C3: an upload that failed leaves the four globals of the dataset state
\* as they were when it started.
C3_FailedUploadKeepsState ==
    upload.pc = "failed" => <<df, df_filename, system_prompt, dashboard_cache>> = prev

\* C4: every query() call returns a response; no handler raises.
C4_QueryTotal ==
    \A i \in 1..Len(calls) : calls[i].response.error = ""

SomeTrigger(q) ==
    \E k \in 1..Len(INTENT_PATTERNS) : PatternsMatch(INTENT_PATTERNS[k].patterns, ToLower(q))

\* C6: classify returns at least one intent for every question, the
\* empty one included, and exactly [OVERVIEW] when no trigger matches.
C6_ClassifyNonEmpty ==
    \A i \in 1..Len(calls) :
        /\ Len(calls[i].intents) >= 1
        /\ ~SomeTrigger(calls[i].question) => calls[i].intents = <<"OVERVIEW">>

\* the empty question, classified
C6_Witness ==
    /\ calls # <<>>
    /\ calls[1].question = ""
    /\ calls[1].intents = <<"OVERVIEW">>

\* the place of an intent in the catalog
CatalogIndex(intent) ==
    CHOOSE k \in 1..Len(INTENT_PATTERNS) : INTENT_PATTERNS[k].intent = intent

Mentioned(vocab, q) == SelectSeq(vocab, LAMBDA v : Contains(ToLower(q), ToLower(v)))

\* the age brackets the question names, explicitly or by a synonym
AgeNamed(a, q) ==
    \/ Contains(q, a)
    \/ a = "18-25" /\ SearchAny(ToLower(q), <<"young", "youth", "teen">>)
    \/ a = "56+" /\ SearchAny(ToLower(q), <<"senior", "elder", "old">>)

\* C8: every entity list holds exactly the vocabulary values the question
\* mentions, in vocabulary order; the age list holds the brackets named
\* explicitly or through a synonym, in vocabulary order.
C8_ExtractVocabularyOrder ==
    \A i \in 1..Len(calls) :
        LET q == calls[i].question
            e == calls[i].entities
        IN  /\ e.categories = Mentioned(CATEGORIES, q)
            /\ e.states = Mentioned(STATES, q)
            /\ e.banks = Mentioned(BANKS, q)
            /\ e.devices = Mentioned(DEVICES, q)
            /\ e.networks = Mentioned(NETWORKS, q)
            /\ e.tx_types = Mentioned(TX_TYPES, q)
            /\ e.months = Mentioned(MONTHS, q)
            /\ e.days = Mentioned(DAYS, q)
            /\ e.ages = SelectSeq(AGE_GROUPS, LAMBDA a : AgeNamed(a, q))

\* the metric cues of the specification, in priority order
METRIC_CUES == <<
    [cues |-> <<"avg", "average", "mean">>,            metric |-> "avg"],
    [cues |-> <<"median">>,                            metric |-> "median"],
    [cues |-> <<"max", "highest", "largest">>,         metric |-> "max"],
    [cues |-> <<"min", "lowest", "smallest">>,         metric |-> "min"],
    [cues |-> <<"total", "sum", "volume">>,            metric |-> "total_volume"],
    [cues |-> <<"count", "how many", "number">>,       metric |-> "count"],
    [cues |-> <<"fraud">>,                             metric |-> "fraud_rate_pct"],
    [cues |-> <<"fail">>,                              metric |-> "fail_rate_pct"] >>

\* C9: the requested metric is that of the first cue group, in priority
\* order, one of whose cues occurs in the lower-cased question, and is
\* absent when no cue occurs.
C9_MetricPriority ==
    \A i \in 1..Len(calls) :
        LET q    == ToLower(calls[i].question)
            hits == {k \in 1..Len(METRIC_CUES) : SearchAny(q, METRIC_CUES[k].cues)}
        IN  calls[i].entities.metric =
                IF hits = {} THEN ""
                ELSE METRIC_CUES[CHOOSE k \in hits : \A j \in hits : k <= j].metric

\* a question with the fraud cue and the average cue: the metric is avg
C9_Witness ==
    /\ calls # <<>>
    /\ Contains(ToLower(calls[1].question), "fraud")
    /\ Contains(ToLower(calls[1].question), "average")
    /\ calls[1].entities.metric = "avg"

\* C10: every extracted hour is the decimal string of an integer in 0..23,
\* and a mention "<n> pm" with n in 1..11 yields the hour n + 12.
C10_Hours24 ==
    \A i \in 1..Len(calls) :
        LET q     == " " \o ToLower(calls[i].question)
            hours == calls[i].entities.hours
        IN  /\ \A j \in 1..Len(hours) : IntOf(hours[j]) \in 0..23
            /\ \A n \in 1..11 :
                  Contains(q, " " \o StrOf(n) \o " pm") => InSeq(StrOf(n + 12), hours)

\* the place of a key in a mapping (0: not a key)
PlaceOf(dim, name) ==
    IF Has(dim, name) THEN CHOOSE i \in 1..Len(dim) : dim[i].key = name ELSE 0

\* C11: _rank_by returns at most top_n (name, value) pairs, sorted by
\* value in the direction asked for, each the value of the metric under a
\* key of the dimension's mapping, and pairs of equal value stand in the
\* insertion order of the mapping, in both directions.
C11_RankSortedStable ==
    rank_out.done =>
        LET r   == rank_out.ranked
            dim == DimOf(kb, rank_in.dimension_key)
        IN  /\ Len(r) <= rank_in.top_n
            /\ \A i \in 1..Len(r) :
                  /\ Has(dim, r[i].name)
                  /\ rank_in.metric \in DOMAIN Get(dim, r[i].name)
                  /\ r[i].value = Get(dim, r[i].name)[rank_in.metric]
            /\ \A i, j \in 1..Len(r) :
                  i < j =>
                      /\ IF rank_in.reverse THEN r[i].value >= r[j].value
                                            ELSE r[i].value <= r[j].value
                      /\ r[i].value = r[j].value =>
                            PlaceOf(dim, r[i].name) < PlaceOf(dim, r[j].name)

\* a descending ranking of two states of equal fraud rate
C11_Witness ==
    /\ rank_out.done
    /\ rank_in.reverse
    /\ rank_in.dimension_key = "by_state"
    /\ Len(rank_out.ranked) = 2
    /\ rank_out.ranked[1].value = rank_out.ranked[2].value
    /\ rank_out.ranked[1].name # rank_out.ranked[2].name

\* the words that make _rank_report sort from the smallest value up
LOWEST_WORDS == <<"lowest", "safest", "least", "worst performance", "minimum">>

\* C12: a question classified RANK whose text names the state dimension
\* and the fraud rate is answered with the states ordered by
\* fraud_rate_pct, the state of the smallest rate first when the text
\* holds one of lowest, safest, least, worst performance, minimum, and the
\* state of the largest rate first otherwise.
C12_LowestRanksAscending ==
    \A i \in 1..Len(calls) :
        LET q == ToLower(calls[i].question)
            r == calls[i].response
            rate(name) == Get(kb.by_state, name).fraud_rate_pct
        IN  (/\ InSeq("RANK", calls[i].intents)
             /\ SearchAny(q, <<"state", "region", "city">>)
             /\ Contains(q, "fraud"))
            => /\ r.error = ""
               /\ r.names # <<>>
               /\ Has(kb.by_state, r.names[1])
               /\ \A e \in 1..Len(kb.by_state) :
                     IF SearchAny(q, LOWEST_WORDS)
                     THEN rate(r.names[1]) <= kb.by_state[e].val.fraud_rate_pct
                     ELSE rate(r.names[1]) >= kb.by_state[e].val.fraud_rate_pct

\* the first named entity of a question is not a key of its dimension
NamesAbsentValue(k, entities) ==
    LET e == FirstEntityDim(entities)
    IN  /\ e # 0
        /\ ~Has(DimOf(k, ENTITY_DIMS[e].dim_key), entities[ENTITY_DIMS[e].list][1])

\* C13: a question that names a dimension value the knowledge base does
\* not hold is answered without an error.
C13_AbsentValueNoError ==
    \A i \in 1..Len(calls) :
        NamesAbsentValue(kb, calls[i].entities) => calls[i].response.error = ""

\* C14: when the overall fraud rate is zero, the Fraud handler asked about
\* a named entity of the knowledge base returns a response.
C14_ZeroOverallRateGuarded ==
    \A i \in 1..Len(calls) :
        (/\ kb.fraud_rate_pct = 0
         /\ calls[i].handler = "Fraud"
         /\ FirstEntityDim(calls[i].entities) # 0
         /\ ~NamesAbsentValue(kb, calls[i].entities))
        => calls[i].response.error = ""

\* C15: the Amount handler asked about a named entity of the knowledge
\* base reports the record's value of the requested metric when the record
\* has it, and the record's avg when it has not or no metric was asked.
C15_AmountMetricOrAvg ==
    \A i \in 1..Len(calls) :
        LET c == calls[i]
            e == FirstEntityDim(c.entities)
        IN  (/\ c.handler = "Amount"
             /\ e # 0
             /\ ~NamesAbsentValue(kb, c.entities))
            => LET section == Get(DimOf(kb, ENTITY_DIMS[e].dim_key),
                                  c.entities[ENTITY_DIMS[e].list][1])
                   metric  == c.entities.metric
               IN  /\ c.response.error = ""
                   /\ c.response.values[1] =
                         IF metric # "" /\ metric \in DOMAIN section
                         THEN section[metric] ELSE section.avg

\* C17: a question classified FRAUD that names no entity and reaches the
\* Fraud handler is answered, and the first state of the answer is a key of
\* by_state whose fraud_rate_pct no other state exceeds; "Which state has
\* the highest fraud rate?" is such a question.
C17_LeaderboardNamesMaxState ==
    \A i \in 1..Len(calls) :
        LET c == calls[i]
            r == c.response
        IN  /\ (c.question = "Which state has the highest fraud rate?"
                  => /\ InSeq("FRAUD", c.intents)
                     /\ FirstEntityDim(c.entities) = 0
                     /\ c.handler = "Fraud")
            /\ (c.handler = "Fraud" /\ FirstEntityDim(c.entities) = 0)
                  => /\ InSeq("FRAUD", c.intents)
                     /\ r.error = ""
                     /\ r.intent = "FRAUD"
                     /\ Has(kb.by_state, r.names[1])
                     /\ r.values[3] = Get(kb.by_state, r.names[1]).fraud_rate_pct
                     /\ \A e \in 1..Len(kb.by_state) :
                           kb.by_state[e].val.fraud_rate_pct <= r.values[3]

\* the leaderboard named a state that is not the first of by_state, on a
\* by_state whose rates differ
C17_Witness ==
    \E i \in 1..Len(calls) :
        /\ calls[i].question = "Which state has the highest fraud rate?"
        /\ calls[i].handler = "Fraud"
        /\ calls[i].response.error = ""
        /\ Len(kb.by_state) > 1
        /\ calls[i].response.names[1] # kb.by_state[1].key
        /\ kb.by_state[1].val.fraud_rate_pct <
              Get(kb.by_state, calls[i].response.names[1]).fraud_rate_pct

\* the decimal texts of val / scale, with and without the zeros that end
\* its fraction
DecimalTexts(val, scale) ==
    LET decimals == CHOOSE d \in 0..3 : Pow10(d) = scale
    IN  { Fixed(val \div Pow10(j), decimals - j) :
            j \in {i \in 0..decimals : val % Pow10(i) = 0} }

\* C16: a question routed to the Amount handler that names an entity of the
\* knowledge base and asks for a metric its record has is answered with
\* the amount text of exactly the record's value of that metric: "What is
\* the average transaction amount for Shopping?" shows
\* by_category[Shopping].avg.
C16_AnswerEmbedsExactValue ==
    \A i \in 1..Len(calls) :
        LET c == calls[i]
            e == FirstEntityDim(c.entities)
        IN  (/\ c.handler = "Amount"
             /\ e # 0
             /\ c.entities.metric # ""
             /\ ~NamesAbsentValue(kb, c.entities)
             /\ c.entities.metric \in DOMAIN Get(DimOf(kb, ENTITY_DIMS[e].dim_key),
                                                 c.entities[ENTITY_DIMS[e].list][1])
             /\ c.response.error = "")
            => LET section == Get(DimOf(kb, ENTITY_DIMS[e].dim_key),
                                  c.entities[ENTITY_DIMS[e].list][1])
                   metric  == c.entities.metric
               IN  c.response.amount \in
                       { "₹" \o t : t \in DecimalTexts(section[metric], ScaleOf(metric)) }

\* C20: every response generate returns has its fields, a confidence that
\* is an integer of 0..100, entities_used that are strings, and stats
\* whose keys and values are strings.
C20_ResponseShape ==
    \A i \in 1..Len(calls) :
        LET r == calls[i].response
        IN  r.error = ""
            => /\ {"intent", "confidence", "entities_used", "stats"} \subseteq DOMAIN r
               /\ r.intent \in STRING
               /\ r.confidence \in 0..100
               /\ \A n \in 1..Len(r.entities_used) : r.entities_used[n] \in STRING
               /\ \A n \in 1..Len(r.stats) :
                     /\ r.stats[n].key \in STRING
                     /\ r.stats[n].type = "str"

\* the ten dimension mappings of a knowledge base
DIMENSIONS == <<"by_category", "by_state", "by_bank", "by_device", "by_network",
                "by_tx_type", "by_age", "by_hour", "by_day", "by_month">>

\* the sum of the counts of a dimension mapping
RECURSIVE SumCounts(_)
SumCounts(dim) == IF dim = <<>> THEN 0 ELSE Head(dim).val.count + SumCounts(Tail(dim))

\* C18: in the knowledge base of the model object, embedded or computed
\* from a file, the counts of the values of each dimension mapping sum to
\* total_transactions.
C18_DimensionCountsSumToTotal ==
    \A i \in 1..Len(DIMENSIONS) :
        DIMENSIONS[i] \in DOMAIN kb
            => SumCounts(kb[DIMENSIONS[i]]) = kb.total_transactions

C21_QueryKeepsKb == [][kb' = kb]_vars

\* a session of MaxCalls questions, answered by different handlers, on the
\* knowledge base it started with
C21_Witness ==
    /\ Len(calls) = MaxCalls
    /\ \E i, j \in 1..Len(calls) : calls[i].handler # calls[j].handler
    /\ Len(history) = MaxCalls
    /\ kb = KNOWLEDGE_BASE

\* the vocabulary of extract_entities for each dimension mapping
VOCABULARIES == <<
    [dim_key |-> "by_category", words |-> CATEGORIES],
    [dim_key |-> "by_state",    words |-> STATES],
    [dim_key |-> "by_bank",     words |-> BANKS],
    [dim_key |-> "by_device",   words |-> DEVICES],
    [dim_key |-> "by_network",  words |-> NETWORKS],
    [dim_key |-> "by_tx_type",  words |-> TX_TYPES],
    [dim_key |-> "by_age",      words |-> AGE_GROUPS],
    [dim_key |-> "by_month",    words |-> MONTHS],
    [dim_key |-> "by_day",      words |-> DAYS] >>

\* C22: in the knowledge base of the model object, embedded or computed
\* from a file, the keys of the category, state, bank, device, network,
\* transaction type, age, month and day mappings are exactly the words of
\* the vocabulary extract_entities uses for that dimension.
C22_KeysMatchVocabulary ==
    \A i \in 1..Len(VOCABULARIES) :
        VOCABULARIES[i].dim_key \in DOMAIN kb
            => { kb[VOCABULARIES[i].dim_key][n].key :
                    n \in 1..Len(kb[VOCABULARIES[i].dim_key]) }
               = { VOCABULARIES[i].words[n] : n \in 1..Len(VOCABULARIES[i].words) }

\* text is the rupee sign, a number of the given decimals and the suffix,
\* and the number is a nearest one of that many decimals to the amount
\* val / scale in its unit; last is what one of its last digit is worth
HasForm(text, val, scale, suffix, decimals, last) ==
    LET head == Len("₹")
        body == SubSeq(text, head + 1, Len(text) - Len(suffix))
        dot  == Len(body) - decimals
        digs == IF decimals = 0 THEN body
                ELSE SubSeq(body, 1, dot - 1) \o SubSeq(body, dot + 1, Len(body))
    IN  /\ Len(text) > head + Len(suffix)
        /\ SubSeq(text, 1, head) = "₹"
        /\ SubSeq(text, Len(text) - Len(suffix) + 1, Len(text)) = suffix
        /\ decimals > 0 => dot > 1 /\ SubSeq(body, dot, dot) = "."
        /\ digs # ""
        /\ \A i \in 1..Len(digs) : SubSeq(digs, i, i) \in DigitChars
        /\ LET n    == IntOf(digs)
               step == scale * last
               diff == IF n * step >= val THEN n * step - val ELSE val - n * step
           IN  2 * diff <= step

\* C23: _fmt_inr shows an amount of 10,000,000 or more in crore with two
\* decimals and " Cr", else one of 100,000 or more in lakh with two
\* decimals and " L", else one of 1,000 or more in thousands with one
\* decimal and "K", else as a whole number; 10000000 gives "₹1.00 Cr",
\* 150000 "₹1.50 L", 2500 "₹2.5K" and 42 "₹42".
C23_FormatByThreshold ==
    fmt_out # ""
        => LET v     == fmt_in.val
               sc    == fmt_in.scale
               whole == v \div sc
           IN  /\ IF whole >= 10000000
                  THEN HasForm(fmt_out, v, sc, " Cr", 2, 100000)
                  ELSE IF whole >= 100000
                  THEN HasForm(fmt_out, v, sc, " L", 2, 1000)
                  ELSE IF whole >= 1000
                  THEN HasForm(fmt_out, v, sc, "K", 1, 100)
                  ELSE HasForm(fmt_out, v, sc, "", 0, 1)
               /\ fmt_in = [val |-> 10000000, scale |-> 1] => fmt_out = "₹1.00 Cr"
               /\ fmt_in = [val |-> 150000, scale |-> 1] => fmt_out = "₹1.50 L"
               /\ fmt_in = [val |-> 2500, scale |-> 1] => fmt_out = "₹2.5K"
               /\ fmt_in = [val |-> 42, scale |-> 1] => fmt_out = "₹42"

\* the amount on the crore threshold has been formatted
C23_Witness ==
    /\ fmt_in = [val |-> 10000000, scale |-> 1]
    /\ fmt_out = "₹1.00 Cr"

\* name is a key of the mapping and no record of the mapping has a larger
\* (most = TRUE) or a smaller (most = FALSE) fraud_rate_pct
ExtremeRate(dim, name, most) ==
    /\ Has(dim, name)
    /\ \A i \in 1..Len(dim) :
          IF most THEN dim[i].val.fraud_rate_pct <= Get(dim, name).fraud_rate_pct
                  ELSE dim[i].val.fraud_rate_pct >= Get(dim, name).fraud_rate_pct

\* C24: in the leaderboard of the Fraud handler (no entity named) the
\* riskiest state, category, bank, network, transaction type and age group
\* have the largest fraud_rate_pct of their mappings, and the safest state
\* and the safest network have the smallest of theirs.
C24_LeaderboardExtremes ==
    \A i \in 1..Len(calls) :
        LET c == calls[i]
            r == c.response
        IN  (c.handler = "Fraud" /\ FirstEntityDim(c.entities) = 0 /\ r.error = "")
            => /\ ExtremeRate(kb.by_state, r.names[1], TRUE)
               /\ ExtremeRate(kb.by_category, r.names[2], TRUE)
               /\ ExtremeRate(kb.by_bank, r.names[3], TRUE)
               /\ ExtremeRate(kb.by_network, r.names[4], TRUE)
               /\ ExtremeRate(kb.by_tx_type, r.names[5], TRUE)
               /\ ExtremeRate(kb.by_age, r.names[6], TRUE)
               /\ ExtremeRate(kb.by_state, r.names[7], FALSE)
               /\ ExtremeRate(kb.by_network, r.names[8], FALSE)

\* C25: the Failure handler asked about a named value of any of the seven
\* dimensions, a key of the knowledge base, reports that value and its
\* fail_rate_pct against the global failed_rate_pct; when no value is
\* named it reports the leaderboard over all values.
C25_FailureNarrowsToEntity ==
    \A i \in 1..Len(calls) :
        LET c == calls[i]
            r == c.response
            e == FirstEntityDim(c.entities)
        IN  (c.handler = "Failure" /\ r.error = "")
            => IF e # 0 /\ ~NamesAbsentValue(kb, c.entities)
               THEN LET name    == c.entities[ENTITY_DIMS[e].list][1]
                        section == Get(DimOf(kb, ENTITY_DIMS[e].dim_key), name)
                    IN  /\ r.entities_used = <<name>>
                        /\ r.names = <<name>>
                        /\ r.values = Opt(section, "fail_rate_pct")
                                          \o <<section.count, kb.failed_rate_pct>>
               ELSE r.entities_used = <<"all">>

\* name is a key of the mapping and no record of the mapping has a larger
\* (most = TRUE) or a smaller (most = FALSE) value of the metric
Extreme(dim, name, metric, most) ==
    /\ Has(dim, name)
    /\ \A i \in 1..Len(dim) :
          IF most THEN dim[i].val[metric] <= Get(dim, name)[metric]
                  ELSE dim[i].val[metric] >= Get(dim, name)[metric]

\* C26: the Trend handler names, for months, the month of the largest
\* fraud_rate_pct and the month of the largest total_volume of by_month;
\* for hours, the hours of the largest and the smallest count and of the
\* largest fraud_rate_pct of by_hour; for days, the day of the largest
\* count of by_day.
C26_TrendNamesExtremes ==
    \A i \in 1..Len(calls) :
        LET r == calls[i].response
        IN  (calls[i].handler = "Trend" /\ r.error = "" /\ r.intent = "TREND")
            => /\ r.entities_used = <<"by_month">>
                  => /\ Extreme(kb.by_month, r.names[1], "fraud_rate_pct", TRUE)
                     /\ Extreme(kb.by_month, r.names[2], "total_volume", TRUE)
               /\ r.entities_used = <<"by_hour">>
                  => /\ Extreme(kb.by_hour, r.names[1], "count", TRUE)
                     /\ Extreme(kb.by_hour, r.names[2], "count", FALSE)
                     /\ Extreme(kb.by_hour, r.names[3], "fraud_rate_pct", TRUE)
               /\ r.entities_used = <<"by_day">>
                  => Extreme(kb.by_day, r.names[1], "count", TRUE)

\* the keyword cues of the Rank handler in their order, with the dimension
\* each selects and its top-N; the last, without cues, is the default
RANK_CUES == <<
    [cues |-> <<"state", "region", "city">>, dim_key |-> "by_state",
     dim |-> "state", top_n |-> 10],
    [cues |-> <<"categor", "merchant">>, dim_key |-> "by_category",
     dim |-> "merchant category", top_n |-> 10],
    [cues |-> <<"bank">>, dim_key |-> "by_bank", dim |-> "bank", top_n |-> 8],
    [cues |-> <<"device", "android", "ios", "web">>, dim_key |-> "by_device",
     dim |-> "device", top_n |-> 3],
    [cues |-> <<"network", "4g", "5g", "wifi", "3g">>, dim_key |-> "by_network",
     dim |-> "network", top_n |-> 4],
    [cues |-> <<"age", "group", "youth", "senior">>, dim_key |-> "by_age",
     dim |-> "age group", top_n |-> 5],
    [cues |-> <<"type", "p2p", "p2m", "recharge", "bill">>, dim_key |-> "by_tx_type",
     dim |-> "transaction type", top_n |-> 4],
    [cues |-> <<>>, dim_key |-> "by_category", dim |-> "merchant category",
     top_n |-> 10] >>

\* the first entry of a cue table one of whose cues is in the text, its
\* last entry when there is none
FirstCued(table, q) ==
    table[CHOOSE i \in 1..Len(table) :
            /\ i = Len(table) \/ \E c \in 1..Len(table[i].cues) :
                                     Contains(q, table[i].cues[c])
            /\ \A j \in 1..(i - 1) :
                  \A c \in 1..Len(table[j].cues) : ~Contains(q, table[j].cues[c])]

\* C27: the Rank handler answers about the dimension of the first cue, in
\* the order state, category, bank, device, network, age, transaction
\* type, that its question holds, about the categories when it holds
\* none, with at most 10 states, 10 categories, 8 banks, 3 devices, 4
\* networks, 5 ages or 4 types, all of them keys of that dimension.
C27_RankDimensionAndTopN ==
    \A i \in 1..Len(calls) :
        LET r      == calls[i].response
            target == FirstCued(RANK_CUES, ToLower(calls[i].question))
        IN  (calls[i].handler = "Rank" /\ r.error = "")
            => /\ r.intent = "RANK"
               /\ r.entities_used = <<target.dim>>
               /\ Len(r.names) <= target.top_n
               /\ Len(r.stats) = Len(r.names)
               /\ \A n \in 1..Len(r.names) : Has(kb[target.dim_key], r.names[n])

\* a question that holds the bank cue and the state cue was answered with
\* ten of the eleven states
C27_Witness ==
    \E i \in 1..Len(calls) :
        /\ calls[i].question = "Rank banks by state volume"
        /\ calls[i].handler = "Rank"
        /\ calls[i].response.entities_used = <<"state">>
        /\ Len(calls[i].response.names) = 10
        /\ Len(kb.by_state) = 11

\* the keyword cues of the Compare handler in their order, with the
\* dimension each selects; the last, without cues, stands for the Rank
\* handler
COMPARE_CUES == <<
    [cues |-> <<"device", "android", "ios", "web">>, dim_key |-> "by_device"],
    [cues |-> <<"p2p", "p2m", "recharge", "bill", "payment", "type">>,
     dim_key |-> "by_tx_type"],
    [cues |-> <<"network", "4g", "5g", "wifi", "3g">>, dim_key |-> "by_network"],
    [cues |-> <<>>, dim_key |-> ""] >>

\* C28: the Compare handler answers with the table of the first cue, in
\* the order device, transaction type, network, that its question holds,
\* and the stats of the table have one entry for every value of that
\* dimension ("Compare Android vs iOS": Android, iOS and Web among them);
\* when the question holds no cue the answer is the one the Rank handler
\* gives to the same question.
C28_CompareTableByCue ==
    \A i \in 1..Len(calls) :
        LET c      == calls[i]
            r      == c.response
            target == FirstCued(COMPARE_CUES, ToLower(c.question))
        IN  (c.handler = "Compare" /\ r.error = "")
            => /\ target.dim_key # ""
                  => /\ r.intent = "COMPARE"
                     /\ [n \in 1..Len(r.stats) |-> r.stats[n].key]
                            = KeysOf(kb[target.dim_key])
               /\ target.dim_key = ""
                  => /\ r.intent = "RANK"
                     /\ r.entities_used =
                            <<FirstCued(RANK_CUES, ToLower(c.question)).dim>>
               /\ c.question = "Compare Android vs iOS"
                  => \A d \in {"Android", "iOS", "Web"} :
                        \E n \in 1..Len(r.stats) : r.stats[n].key = d

\* questions with cues of two tables and a question without a cue have
\* been answered: "Compare wifi and web" with the devices, among them the
\* one outside the vocabulary
C28_Witness ==
    \E i \in 1..Len(calls) :
        /\ calls[i].question = "Compare wifi and web"
        /\ calls[i].handler = "Compare"
        /\ calls[i].response.intent = "COMPARE"
        /\ Len(calls[i].response.stats) = 4
        /\ calls[i].response.stats[4].key = "Tablet"

\* the stored history of a session, <<>> when the id is no key
Stored(sid) == IF sessions[sid] = 0 THEN <<>> ELSE msg_lists[sessions[sid]]

\* C29: when two chat requests with the same session id have returned
\* their replies, however their steps interleaved, and no clear-session
\* request was made, the stored history of the session holds the user
\* message and the reply of both.
C29_ConcurrentChatsKeepMessages ==
    \A r1, r2 \in 1..MaxRequests :
        ( /\ r1 # r2
          /\ chats[r1].op = "chat" /\ chats[r1].pc = "done"
          /\ chats[r2].op = "chat" /\ chats[r2].pc = "done"
          /\ chats[r1].sid = chats[r2].sid
          /\ \A o \in 1..MaxRequests : chats[o].op # "clear" )
        => \A r \in {r1, r2}, role \in {"user", "assistant"} :
              \E i \in 1..Len(Stored(chats[r1].sid)) :
                  Stored(chats[r1].sid)[i] = [role |-> role, req |-> r]

\* user and assistant messages in turn, a user message first and an
\* assistant message last
Alternates(msgs) ==
    /\ Len(msgs) % 2 = 0
    /\ \A i \in 1..Len(msgs) :
          msgs[i].role = (IF i % 2 = 1 THEN "user" ELSE "assistant")

\* C30: when the requests are served one after the other, then after any
\* of them, a chat whose AI request failed among them, every stored
\* session history is user and assistant messages in turn, from a user
\* message to an assistant message.
C30_StoredHistoriesAlternate ==
    Quiet => \A sid \in AllSids : sessions[sid] # 0 => Alternates(Stored(sid))

====
